---- MODULE Spec2Model ----
(***************************************************************************)
(* A model of backend/utils/db_design.py: the schema records, the          *)
(* normalization analyzer, the lookup-table normalizer, the SQL exporter   *)
(* and the reader of an existing SQLite file of DatabaseDesignAnalyzer.    *)
(* Names and texts are TLA+ strings,                                       *)
(* and the Python string methods the code calls (lower, upper, in,         *)
(* startswith, split, replace, join) are operators over them.              *)
(***************************************************************************)
EXTENDS Integers, Sequences, FiniteSets, TLC

VARIABLES
    schema,      \* the caller's DatabaseSchema object, as it is now
    original,    \* the value schema had when the caller built it
    reports,     \* the report objects the caller holds, as they are now
    returned,    \* the value each report had when it was returned
    normalized,  \* results of generate_normalized_schema, in call order
    exported,    \* results of export_schema_to_sql: <<dialect, text>> pairs
    database,    \* the SQLite file analyze_existing_database is pointed at
    analyzed,    \* results of analyze_existing_database, in call order
    inspections, \* calls of analyze_existing_database: how each ended
    filesystem,  \* the directories that exist and each file's content
    documented,  \* completed save_schema_documentation runs, and the last
    analyzer,    \* the DatabaseDesignAnalyzer object the callers share
    threads,     \* the frame of each concurrent call, by thread
    renormalized, \* results of generate_normalized_schema on its own results
    uploads,     \* the files of the upload folder: content by path
    requests     \* the frame of each /api/analyze-schema request

vars == <<schema, original, reports, returned, normalized, exported,
          database, analyzed, inspections, filesystem, documented,
          analyzer, threads, renormalized, uploads, requests>>

(***************************************************************************)
(* Bounds of the model.                                                    *)
(***************************************************************************)
MaxTables == 2   \* tables in an input schema
MaxCols == 3     \* columns in an input schema, over all its tables
MaxCalls == 2    \* calls of one operation on one schema
MaxExports == 1  \* texts a caller of the exporter alone asks for
NumThreads == 2  \* concurrent calls on one analyzer object
NumRequests == 2 \* concurrent /api/analyze-schema requests

(***************************************************************************)
(* Python's str methods.                                                   *)
(***************************************************************************)
UpperCase == "ABCDEFGHIJKLMNOPQRSTUVWXYZ"

LowerCase == "abcdefghijklmnopqrstuvwxyz"

\* the lower-case letter of every upper-case letter, and the reverse
ToLower == [c \in {SubSeq(UpperCase, k, k) : k \in 1..Len(UpperCase)} |->
               LET k == CHOOSE k \in 1..Len(UpperCase) : SubSeq(UpperCase, k, k) = c
               IN  SubSeq(LowerCase, k, k)]

ToUpper == [c \in {SubSeq(LowerCase, k, k) : k \in 1..Len(LowerCase)} |->
               LET k == CHOOSE k \in 1..Len(LowerCase) : SubSeq(LowerCase, k, k) = c
               IN  SubSeq(UpperCase, k, k)]

LowerChar(c) == IF c \in DOMAIN ToLower THEN ToLower[c] ELSE c

UpperChar(c) == IF c \in DOMAIN ToUpper THEN ToUpper[c] ELSE c

RECURSIVE MapChars(_, _, _)
\* s[i..] with every character mapped: "lower" or "upper"
MapChars(s, i, how) ==
    IF i > Len(s) THEN ""
    ELSE (IF how = "lower" THEN LowerChar(SubSeq(s, i, i))
                           ELSE UpperChar(SubSeq(s, i, i)))
         \o MapChars(s, i + 1, how)

\* s.lower()
Lower(s) == MapChars(s, 1, "lower")

\* s.upper()
Upper(s) == MapChars(s, 1, "upper")

\* does p occur in s at index i (1-based)
OccursAt(s, p, i) ==
    /\ i >= 1
    /\ i + Len(p) - 1 <= Len(s)
    /\ SubSeq(s, i, i + Len(p) - 1) = p

\* p in s
Contains(s, p) == \E i \in 1..(Len(s) + 1) : OccursAt(s, p, i)

\* s.startswith(p)
StartsWith(s, p) == OccursAt(s, p, 1)

\* s.endswith(p)
EndsWith(s, p) == OccursAt(s, p, Len(s) - Len(p) + 1)

\* s.split(sep)[0]: s up to its first sep, the whole of s when it has none
SplitFirst(s, sep) ==
    IF Contains(s, sep)
    THEN LET i == CHOOSE k \in 1..Len(s) :
                      /\ OccursAt(s, sep, k)
                      /\ \A j \in 1..(k - 1) : ~OccursAt(s, sep, j)
         IN  SubSeq(s, 1, i - 1)
    ELSE s

RECURSIVE ReplaceFrom(_, _, _, _)
\* s[i..].replace(old, new): every occurrence, scanning left to right
ReplaceFrom(s, old, new, i) ==
    IF i > Len(s) THEN ""
    ELSE IF OccursAt(s, old, i)
         THEN new \o ReplaceFrom(s, old, new, i + Len(old))
         ELSE SubSeq(s, i, i) \o ReplaceFrom(s, old, new, i + 1)

\* s.replace(old, new), old not empty
Replace(s, old, new) == ReplaceFrom(s, old, new, 1)

\* is the one-character string c a letter
IsLetter(c) == c \in DOMAIN ToLower \/ c \in DOMAIN ToUpper

RECURSIVE TitleFrom(_, _)
\* s[i..] of s.title(): a letter after a letter in lower case, any other
\* letter in upper case
TitleFrom(s, i) ==
    IF i > Len(s) THEN ""
    ELSE (IF i > 1 /\ IsLetter(SubSeq(s, i - 1, i - 1))
          THEN LowerChar(SubSeq(s, i, i))
          ELSE UpperChar(SubSeq(s, i, i))) \o TitleFrom(s, i + 1)

\* s.title()
Title(s) == TitleFrom(s, 1)

RECURSIVE Join(_, _)
\* sep.join(parts)
Join(parts, sep) ==
    IF Len(parts) = 0 THEN ""
    ELSE IF Len(parts) = 1 THEN parts[1]
    ELSE parts[1] \o sep \o Join(Tail(parts), sep)

\* [x.name for x in xs] and the like
SeqMap(Op(_), xs) == [i \in 1..Len(xs) |-> Op(xs[i])]

\* x in xs, for a list
InList(x, xs) == \E i \in 1..Len(xs) : xs[i] = x

(***************************************************************************)
(* The dataclasses Column, Table, Relationship and DatabaseSchema, with    *)
(* the defaults of their optional fields.                                  *)
(***************************************************************************)
\* Python's None, where a string is expected
None == "None"

\* default_value: None, a str or an int
DefaultNone == [kind |-> "none", text |-> "", number |-> 0]
DefaultStr(s) == [kind |-> "str", text |-> s, number |-> 0]
DefaultInt(n) == [kind |-> "int", text |-> "", number |-> n]

Column(name, data_type) ==
    [name |-> name, data_type |-> data_type, nullable |-> TRUE,
     primary_key |-> FALSE, foreign_key |-> None, unique |-> FALSE,
     default_value |-> DefaultNone, description |-> ""]

Table(name, columns, primary_keys, foreign_keys, description) ==
    [name |-> name, columns |-> columns, primary_keys |-> primary_keys,
     foreign_keys |-> foreign_keys, indexes |-> <<>>,
     description |-> description]

Relationship(source_table, target_table, source_columns, target_columns, relationship_type) ==
    [source_table |-> source_table, target_table |-> target_table,
     source_columns |-> source_columns, target_columns |-> target_columns,
     relationship_type |-> relationship_type, constraint_name |-> ""]

DatabaseSchema(name, tables, relationships) ==
    [name |-> name, tables |-> tables, relationships |-> relationships,
     views |-> <<>>, indexes |-> <<>>]

(***************************************************************************)
(* check_normalization_level.  The analysis dict is threaded through the   *)
(* loops of the code as an accumulator.                                    *)
(***************************************************************************)
\* the dict literal the call starts from
NewAnalysis ==
    [first_normal_form |-> [compliant |-> TRUE, violations |-> <<>>],
     second_normal_form |-> [compliant |-> TRUE, violations |-> <<>>],
     third_normal_form |-> [compliant |-> TRUE, violations |-> <<>>],
     recommendations |-> <<>>]

NonAtomicKeywords == <<"json", "array", "list", "multi">>

\* HasNonAtomicKeyword without the .lower(): a case-sensitive match
HasNonAtomicKeyword_CaseSensitive(column) ==
    \E k \in 1..Len(NonAtomicKeywords) :
        Contains(column.name, NonAtomicKeywords[k])

\* any(keyword in column.name.lower() for keyword in [...])
HasNonAtomicKeyword(column) ==
    \E k \in 1..Len(NonAtomicKeywords) :
        Contains(Lower(column.name), NonAtomicKeywords[k])

\* the body of the 1NF loop for one column
FirstNormalFormStep(analysis, table, column) ==
    IF HasNonAtomicKeyword(column)
    THEN [analysis EXCEPT
            !.first_normal_form.violations =
                Append(@, [table |-> table.name, column |-> column.name,
                           issue |-> "Potential non-atomic values"]),
            !.first_normal_form.compliant = FALSE]
    ELSE analysis

RECURSIVE FirstNormalFormLoop(_, _, _)
\* for column in table.columns, from the i-th on
FirstNormalFormLoop(analysis, table, i) ==
    IF i > Len(table.columns) THEN analysis
    ELSE FirstNormalFormLoop(
             FirstNormalFormStep(analysis, table, table.columns[i]),
             table, i + 1)

\* col.name.startswith(table.primary_keys[0].split('_')[0])
SharesKeyPrefix(col, table) ==
    StartsWith(col.name, SplitFirst(table.primary_keys[1], "_"))

\* the body of the 2NF loop for one non-key column
SecondNormalFormStep(analysis, table, col) ==
    IF SharesKeyPrefix(col, table)
    THEN [analysis EXCEPT
            !.second_normal_form.violations =
                Append(@, [table |-> table.name, column |-> col.name,
                           issue |-> "Partial dependency on composite key"]),
            !.second_normal_form.compliant = FALSE]
    ELSE analysis

RECURSIVE SecondNormalFormLoop(_, _, _, _)
\* for col in non_key_columns, from the i-th on
SecondNormalFormLoop(analysis, table, non_key_columns, i) ==
    IF i > Len(non_key_columns) THEN analysis
    ELSE SecondNormalFormLoop(
             SecondNormalFormStep(analysis, table, non_key_columns[i]),
             table, non_key_columns, i + 1)

\* the 2NF check of one table
SecondNormalFormCheck(analysis, table) ==
    IF Len(table.primary_keys) > 1
    THEN LET non_key_columns ==
                 SelectSeq(table.columns,
                           LAMBDA col : ~InList(col.name, table.primary_keys))
         IN  SecondNormalFormLoop(analysis, table, non_key_columns, 1)
    ELSE analysis

\* col1.name.replace('_id', '') in col2.name
NameStemIn(col1, col2) == Contains(col2.name, Replace(col1.name, "_id", ""))

\* the condition of the 3NF check on a pair of columns
TransitivePair(col1, col2) ==
    /\ col1 # col2
    /\ ~col1.primary_key
    /\ ~col2.primary_key
    /\ NameStemIn(col1, col2)

\* ThirdNormalFormStep that records the violation and leaves compliant alone
ThirdNormalFormStep_NoFlag(analysis, table, col1, col2) ==
    IF TransitivePair(col1, col2)
    THEN [analysis EXCEPT
            !.third_normal_form.violations =
                Append(@, [table |-> table.name,
                           columns |-> <<col1.name, col2.name>>,
                           issue |-> "Potential transitive dependency"])]
    ELSE analysis

\* the body of the 3NF loops for one pair
ThirdNormalFormStep(analysis, table, col1, col2) ==
    IF TransitivePair(col1, col2)
    THEN [analysis EXCEPT
            !.third_normal_form.violations =
                Append(@, [table |-> table.name,
                           columns |-> <<col1.name, col2.name>>,
                           issue |-> "Potential transitive dependency"]),
            !.third_normal_form.compliant = FALSE]
    ELSE analysis

RECURSIVE ThirdNormalFormLoop(_, _, _, _)
\* for col1 in table.columns: for col2 in table.columns, from pair (i, j) on
ThirdNormalFormLoop(analysis, table, i, j) ==
    IF i > Len(table.columns) THEN analysis
    ELSE IF j > Len(table.columns)
         THEN ThirdNormalFormLoop(analysis, table, i + 1, 1)
         ELSE ThirdNormalFormLoop(
                  ThirdNormalFormStep(analysis, table,
                                      table.columns[i], table.columns[j]),
                  table, i, j + 1)

\* the body of the loop over the tables
CheckTable(analysis, table) ==
    ThirdNormalFormLoop(
        SecondNormalFormCheck(FirstNormalFormLoop(analysis, table, 1), table),
        table, 1, 1)

RECURSIVE CheckTables(_, _, _)
\* for table in schema.tables, from the t-th on
CheckTables(analysis, tables, t) ==
    IF t > Len(tables) THEN analysis
    ELSE CheckTables(CheckTable(analysis, tables[t]), tables, t + 1)

\* Recommend whose second if tests the first level again
Recommend_WrongLevel(analysis) ==
    LET r1 == IF ~analysis.first_normal_form.compliant
              THEN <<"Split non-atomic values into separate columns or tables">>
              ELSE <<>>
        r2 == IF ~analysis.first_normal_form.compliant
              THEN <<"Move partially dependent columns to separate tables">>
              ELSE <<>>
        r3 == IF ~analysis.third_normal_form.compliant
              THEN <<"Remove transitive dependencies by creating lookup tables">>
              ELSE <<>>
    IN  [analysis EXCEPT !.recommendations = @ \o r1 \o r2 \o r3]

\* the three ifs that fill recommendations
Recommend(analysis) ==
    LET r1 == IF ~analysis.first_normal_form.compliant
              THEN <<"Split non-atomic values into separate columns or tables">>
              ELSE <<>>
        r2 == IF ~analysis.second_normal_form.compliant
              THEN <<"Move partially dependent columns to separate tables">>
              ELSE <<>>
        r3 == IF ~analysis.third_normal_form.compliant
              THEN <<"Remove transitive dependencies by creating lookup tables">>
              ELSE <<>>
    IN  [analysis EXCEPT !.recommendations = @ \o r1 \o r2 \o r3]

\* check_normalization_level filling violation lists the analyzer keeps
\* from one call to the next instead of new ones
check_normalization_level_Accumulating(sch, held) ==
    LET start == IF Len(held) = 0 THEN NewAnalysis
                 ELSE [held[Len(held)] EXCEPT !.recommendations = <<>>]
    IN  [analysis |-> Recommend(CheckTables(start, sch.tables, 1)),
         schema |-> sch,
         held |-> held]

\* check_normalization_level with analysis kept in one dict that every call
\* fills and returns: the reports held are that dict too
check_normalization_level_SharedDict(sch, held) ==
    LET start == IF Len(held) = 0 THEN NewAnalysis
                 ELSE [held[Len(held)] EXCEPT !.recommendations = <<>>]
        analysis == Recommend(CheckTables(start, sch.tables, 1))
    IN  [analysis |-> analysis,
         schema |-> sch,
         held |-> [k \in 1..Len(held) |-> analysis]]

\* The call on the caller's schema object while the caller holds the reports
\* `held`: the report returned, and what the call leaves of the schema and of
\* the held reports (it writes to neither: analysis is a new dict).
check_normalization_level(sch, held) ==
    [analysis |-> Recommend(CheckTables(NewAnalysis, sch.tables, 1)),
     schema |-> sch,
     held |-> held]

(***************************************************************************)
(* generate_normalized_schema and _identify_lookup_tables.  A dict is a    *)
(* sequence of [name, columns] entries in insertion order.  While a table  *)
(* is processed the model keeps the input Table object, the Table being    *)
(* built, and which list fields of the two are one list object, so that a  *)
(* write through a shared list reaches the input.                          *)
(***************************************************************************)
EnumPatterns == <<"status", "type", "category", "level", "priority">>

\* pattern in column.name.lower() and not column.primary_key
MatchesPattern(column, pattern) ==
    Contains(Lower(column.name), pattern) /\ ~column.primary_key

\* the index of the entry of a dict with the given key, 0 when it has none
KeyIndex(dict, key) ==
    IF \E k \in 1..Len(dict) : dict[k].name = key
    THEN CHOOSE k \in 1..Len(dict) : dict[k].name = key
    ELSE 0

\* the body of the loops of _identify_lookup_tables for one column and pattern
IdentifyStep(lookup_tables, table, column, pattern) ==
    IF MatchesPattern(column, pattern)
    THEN LET lookup_table_name == table.name \o "_" \o pattern \o "s"
             present == IF KeyIndex(lookup_tables, lookup_table_name) = 0
                        THEN Append(lookup_tables,
                                    [name |-> lookup_table_name,
                                     columns |-> <<>>])
                        ELSE lookup_tables
             lookup_column == [Column(pattern, column.data_type) EXCEPT
                                  !.description = Title(pattern) \o " values"]
         IN  [present EXCEPT
                 ![KeyIndex(present, lookup_table_name)].columns =
                     Append(@, lookup_column)]
    ELSE lookup_tables

RECURSIVE IdentifyLoop(_, _, _, _)
\* for column in table.columns: for pattern in enum_patterns, from (i, k) on
IdentifyLoop(lookup_tables, table, i, k) ==
    IF i > Len(table.columns) THEN lookup_tables
    ELSE IF k > Len(EnumPatterns)
         THEN IdentifyLoop(lookup_tables, table, i + 1, 1)
         ELSE IdentifyLoop(
                  IdentifyStep(lookup_tables, table, table.columns[i],
                               EnumPatterns[k]),
                  table, i, k + 1)

\* _identify_lookup_tables(table)
IdentifyLookupTables(table) == IdentifyLoop(<<>>, table, 1, 1)

\* The start of the loop body for one table: normalized_table is built from
\* copies of the three lists of table, so no list is shared; nothing is
\* emitted yet.
StartTable(table) ==
    [table |-> table,
     normalized_table |->
         Table(table.name, table.columns, table.primary_keys,
               table.foreign_keys, table.description \o " (normalized)"),
     shared |-> {},
     tables |-> <<>>,
     relationships |-> <<>>]

\* normalized_table.columns = [...]: the name is bound to a new list
AssignColumns(st, columns) ==
    [st EXCEPT !.normalized_table.columns = columns,
               !.shared = @ \ {"columns"}]

\* normalized_table.columns.append(x): the list is written in place, and
\* with it table.columns when the two are one list
AppendColumn(st, x) ==
    [st EXCEPT !.normalized_table.columns = Append(@, x),
               !.table.columns = IF "columns" \in st.shared
                                 THEN Append(@, x) ELSE @]

\* LookupStep with the filter and the append done on table, the loop
\* variable, in place of normalized_table
LookupStep_OnTable(st, lookup) ==
    LET lookup_table ==
            Table(lookup.name,
                  <<[Column("id", "INTEGER") EXCEPT
                         !.primary_key = TRUE, !.nullable = FALSE]>>
                      \o lookup.columns,
                  <<"id">>, <<>>, "Lookup table for " \o st.table.name)
        fk_column == [Column(lookup.name \o "_id", "INTEGER") EXCEPT
                         !.foreign_key = lookup.name \o ".id"]
        lookup_names == SeqMap(LAMBDA lc : lc.name, lookup.columns)
        kept == SelectSeq(st.table.columns,
                          LAMBDA col : ~InList(col.name, lookup_names))
        relationship == Relationship(st.table.name, lookup.name,
                                     <<fk_column.name>>, <<"id">>,
                                     "many-to-one")
    IN  [st EXCEPT !.table.columns = Append(kept, fk_column),
                   !.tables = Append(@, lookup_table),
                   !.relationships = Append(@, relationship)]

\* the body of the loop over lookup_tables.items() for one entry
LookupStep(st, lookup) ==
    LET lookup_table ==
            Table(lookup.name,
                  <<[Column("id", "INTEGER") EXCEPT
                         !.primary_key = TRUE, !.nullable = FALSE]>>
                      \o lookup.columns,
                  <<"id">>, <<>>, "Lookup table for " \o st.table.name)
        fk_column == [Column(lookup.name \o "_id", "INTEGER") EXCEPT
                         !.foreign_key = lookup.name \o ".id"]
        lookup_names == SeqMap(LAMBDA lc : lc.name, lookup.columns)
        kept == SelectSeq(st.normalized_table.columns,
                          LAMBDA col : ~InList(col.name, lookup_names))
        relationship == Relationship(st.table.name, lookup.name,
                                     <<fk_column.name>>, <<"id">>,
                                     "many-to-one")
    IN  [AppendColumn(AssignColumns(st, kept), fk_column) EXCEPT
            !.tables = Append(@, lookup_table),
            !.relationships = Append(@, relationship)]

RECURSIVE LookupLoop(_, _, _)
\* for lookup_table_name, lookup_columns in lookup_tables.items(), from k on
LookupLoop(st, lookup_tables, k) ==
    IF k > Len(lookup_tables) THEN st
    ELSE LookupLoop(LookupStep(st, lookup_tables[k]), lookup_tables, k + 1)

\* the body of the loop over schema.tables for one table: the lookup tables
\* it emits, then normalized_table
NormalizeTable(table) ==
    LET st == LookupLoop(StartTable(table), IdentifyLookupTables(table), 1)
    IN  [st EXCEPT !.tables = Append(@, st.normalized_table)]

RECURSIVE NormalizeTables(_, _, _)
\* for table in schema.tables, from the t-th on; acc collects the input
\* tables as the loop leaves them, normalized_tables and
\* normalized_relationships
NormalizeTables(acc, tables, t) ==
    IF t > Len(tables) THEN acc
    ELSE LET st == NormalizeTable(tables[t])
         IN  NormalizeTables(
                 [input |-> Append(acc.input, st.table),
                  normalized_tables |-> acc.normalized_tables \o st.tables,
                  normalized_relationships |->
                      acc.normalized_relationships \o st.relationships],
                 tables, t + 1)

\* generate_normalized_schema with the new relationships put before the
\* input's
generate_normalized_schema_NewFirst(sch) ==
    LET acc == NormalizeTables([input |-> <<>>, normalized_tables |-> <<>>,
                                normalized_relationships |-> <<>>],
                               sch.tables, 1)
    IN  [result |-> DatabaseSchema(sch.name \o "_normalized",
                                   acc.normalized_tables,
                                   acc.normalized_relationships
                                       \o sch.relationships),
         schema |-> [sch EXCEPT !.tables = acc.input]]

\* The call on the caller's schema object: the schema returned, and what the
\* call leaves of the caller's schema.
generate_normalized_schema(sch) ==
    LET acc == NormalizeTables([input |-> <<>>, normalized_tables |-> <<>>,
                                normalized_relationships |-> <<>>],
                               sch.tables, 1)
    IN  [result |-> DatabaseSchema(sch.name \o "_normalized",
                                   acc.normalized_tables,
                                   sch.relationships
                                       \o acc.normalized_relationships),
         schema |-> [sch EXCEPT !.tables = acc.input]]

(***************************************************************************)
(* export_schema_to_sql.  The text returned is a string; str(n) of an int  *)
(* is ToString(n).                                                         *)
(***************************************************************************)
\* the dict type_mapping, a function from dialect to a function from type
TypeMapping ==
    [mysql |-> [INTEGER |-> "INT", TEXT |-> "TEXT", REAL |-> "DECIMAL(10,2)",
                BLOB |-> "BLOB", VARCHAR |-> "VARCHAR"],
     postgresql |-> [INTEGER |-> "INTEGER", TEXT |-> "TEXT", REAL |-> "DECIMAL",
                     BLOB |-> "BYTEA", VARCHAR |-> "VARCHAR"],
     sqlite |-> [INTEGER |-> "INTEGER", TEXT |-> "TEXT", REAL |-> "REAL",
                 BLOB |-> "BLOB", VARCHAR |-> "TEXT"]]

\* type_mapping.get(dialect, type_mapping['mysql'])
MappingFor(dialect) ==
    IF dialect \in DOMAIN TypeMapping THEN TypeMapping[dialect]
    ELSE TypeMapping["mysql"]

\* MappedType looking up the type without its parameters, VARCHAR for
\* VARCHAR(255)
MappedType_BaseType(mapping, data_type) ==
    IF SplitFirst(data_type, "(") \in DOMAIN mapping
    THEN mapping[SplitFirst(data_type, "(")]
    ELSE data_type

\* mapping.get(column.data_type, column.data_type)
MappedType(mapping, data_type) ==
    IF data_type \in DOMAIN mapping THEN mapping[data_type] ELSE data_type

\* DefaultClause quoting every value, textual or not
DefaultClause_AlwaysQuoted(column) ==
    IF column.default_value.kind = "none" THEN ""
    ELSE IF column.default_value.kind = "str"
         THEN " DEFAULT '" \o column.default_value.text \o "'"
         ELSE " DEFAULT '" \o ToString(column.default_value.number) \o "'"

\* the DEFAULT clause of a column, empty when default_value is None
DefaultClause(column) ==
    IF column.default_value.kind = "none" THEN ""
    ELSE IF column.default_value.kind = "str"
         THEN " DEFAULT '" \o column.default_value.text \o "'"
         ELSE " DEFAULT " \o ToString(column.default_value.number)

\* col_def of one column
ColumnDefinition(column, mapping) ==
    "    " \o column.name \o " " \o MappedType(mapping, column.data_type)
        \o (IF ~column.nullable THEN " NOT NULL" ELSE "")
        \o DefaultClause(column)
        \o (IF column.unique THEN " UNIQUE" ELSE "")

\* the entries the first loop appends to sql_statements for one table
CreateStatements(table, mapping) ==
    LET column_definitions ==
            SeqMap(LAMBDA column : ColumnDefinition(column, mapping),
                   table.columns)
            \o (IF Len(table.primary_keys) > 0
                THEN <<"    PRIMARY KEY (" \o Join(table.primary_keys, ", ")
                           \o ")">>
                ELSE <<>>)
        create_stmt == "CREATE TABLE " \o table.name \o " (\n"
                           \o Join(column_definitions, ",\n") \o "\n);\n"
    IN  <<"-- Table: " \o table.name>>
            \o (IF table.description # ""
                THEN <<"-- " \o table.description>> ELSE <<>>)
            \o <<create_stmt>>

\* alter_stmt of one foreign key of a table
AlterStatement(table, fk) ==
    "ALTER TABLE " \o table.name \o " ADD FOREIGN KEY (" \o fk.source_column
        \o ") REFERENCES " \o fk.target_table \o "(" \o fk.target_column \o ");"

RECURSIVE CreateLoop(_, _, _)
\* for table in schema.tables, from the t-th on: the CREATE TABLE entries
CreateLoop(tables, mapping, t) ==
    IF t > Len(tables) THEN <<>>
    ELSE CreateStatements(tables[t], mapping) \o CreateLoop(tables, mapping, t + 1)

RECURSIVE AlterLoop(_, _)
\* for table in schema.tables: for fk in table.foreign_keys, from table t on
AlterLoop(tables, t) ==
    IF t > Len(tables) THEN <<>>
    ELSE SeqMap(LAMBDA fk : AlterStatement(tables[t], fk),
                tables[t].foreign_keys) \o AlterLoop(tables, t + 1)

\* SqlStatements with each table's ALTER TABLE statements right after its
\* CREATE TABLE statement, in one loop over the tables
SqlStatements_AlterPerTable(sch, dialect) ==
    LET RECURSIVE PerTable(_)
        PerTable(t) ==
            IF t > Len(sch.tables) THEN <<>>
            ELSE CreateStatements(sch.tables[t], MappingFor(dialect))
                     \o SeqMap(LAMBDA fk : AlterStatement(sch.tables[t], fk),
                               sch.tables[t].foreign_keys)
                     \o PerTable(t + 1)
    IN  <<"-- Database Schema: " \o sch.name,
          "-- Generated for " \o Upper(dialect),
          "-- Tables: " \o ToString(Len(sch.tables)),
          "">> \o PerTable(1)

\* the list sql_statements at the return
SqlStatements(sch, dialect) ==
    <<"-- Database Schema: " \o sch.name,
      "-- Generated for " \o Upper(dialect),
      "-- Tables: " \o ToString(Len(sch.tables)),
      "">>
        \o CreateLoop(sch.tables, MappingFor(dialect), 1)
        \o AlterLoop(sch.tables, 1)

\* export_schema_to_sql(schema, dialect)
export_schema_to_sql(sch, dialect) == Join(SqlStatements(sch, dialect), "\n")

(***************************************************************************)
(* generate_er_diagram_dot and save_schema_documentation.  The file system *)
(* is the set of directories that exist and the content of every file, by  *)
(* path.  A file written by json.dump holds the dumped value under the     *)
(* format name; the other files hold the text written.                     *)
(***************************************************************************)
\* the row of the node's HTML table for one column
ColumnRow(column) ==
    LET key_indicator ==
            IF column.primary_key THEN " [PK]"
            ELSE IF column.foreign_key # None /\ column.foreign_key # ""
            THEN " [FK]"
            ELSE ""
    IN  "            <TR><TD ALIGN=\"LEFT\">" \o column.name \o " ("
        \o column.data_type \o ")" \o key_indicator \o "</TD></TR>\n"

\* the node of one table
TableNode(table) ==
    "\n    // Table: " \o table.name \o "\n    " \o table.name
    \o " [label=<\n"
    \o "        <TABLE BORDER=\"1\" CELLBORDER=\"0\" CELLSPACING=\"0\">\n"
    \o "            <TR><TD BGCOLOR=\"lightblue\"><B>" \o Upper(table.name)
    \o "</B></TD></TR>\n"
    \o Join(SeqMap(ColumnRow, table.columns), "")
    \o "        </TABLE>\n    >];\n"

\* the edge of one relationship
RelationshipEdge(relationship) ==
    LET relationship_label ==
            Replace(relationship.relationship_type, "-", "\\n")
    IN  "\n    " \o relationship.source_table \o " -> "
        \o relationship.target_table \o " [label=\"" \o relationship_label
        \o "\"];\n"

\* generate_er_diagram_dot(schema)
generate_er_diagram_dot(sch) ==
    "\ndigraph ER_Diagram {\n    rankdir=TB;\n    node [shape=plaintext];\n"
    \o "    \n    // Title\n    title [label=<<B>" \o sch.name
    \o " ER Diagram</B>>, shape=plaintext, fontsize=16];\n    \n"
    \o Join(SeqMap(TableNode, sch.tables), "")
    \o Join(SeqMap(RelationshipEdge, sch.relationships), "")
    \o "\n}"

\* os.path.join(output_dir, filename)
PathJoin(output_dir, filename) ==
    IF StartsWith(filename, "/") THEN filename
    ELSE IF output_dir = "" \/ EndsWith(output_dir, "/")
    THEN output_dir \o filename
    ELSE output_dir \o "/" \o filename

\* os.makedirs(output_dir, exist_ok=True)
MakeDirs(fs, output_dir) ==
    [fs EXCEPT !.directories = @ \cup {output_dir}]

\* with open(path, 'w') as f: f.write(content), on a file that is kept
WriteFile_KeepExisting(fs, path, content) ==
    IF path \in DOMAIN fs.files THEN fs
    ELSE [fs EXCEPT !.files = [q \in DOMAIN fs.files \cup {path} |->
                                  IF q = path THEN content ELSE fs.files[q]]]

\* with open(path, 'w') as f: f.write(content)
WriteFile(fs, path, content) ==
    [fs EXCEPT !.files = [q \in DOMAIN fs.files \cup {path} |->
                             IF q = path THEN content ELSE fs.files[q]]]

\* with open(path, 'w') as f: json.dump(value, f, indent=2)
JsonDump(fs, path, value) ==
    WriteFile(fs, path, [format |-> "json", indent |-> 2, value |-> value])

\* the dialects save_schema_documentation exports
DocumentedDialects == <<"mysql", "postgresql", "sqlite">>

RECURSIVE SaveSqlFiles(_, _, _, _)
\* for dialect in ['mysql', 'postgresql', 'sqlite'], from the d-th on
SaveSqlFiles(fs, sch, output_dir, d) ==
    IF d > Len(DocumentedDialects) THEN fs
    ELSE LET dialect == DocumentedDialects[d]
             sql_content == export_schema_to_sql(sch, dialect)
             sql_path == PathJoin(output_dir,
                                  sch.name \o "_" \o dialect \o ".sql")
         IN  SaveSqlFiles(WriteFile(fs, sql_path, sql_content), sch,
                          output_dir, d + 1)

\* save_schema_documentation(schema, output_dir): the file system it leaves
save_schema_documentation(fs, sch, output_dir) ==
    LET made == MakeDirs(fs, output_dir)
        schema_dict == [name |-> sch.name, tables |-> sch.tables,
                        relationships |-> sch.relationships,
                        views |-> sch.views, indexes |-> sch.indexes]
        json_path == PathJoin(output_dir, sch.name \o "_schema.json")
        with_json == JsonDump(made, json_path, schema_dict)
        dot_content == generate_er_diagram_dot(sch)
        dot_path == PathJoin(output_dir, sch.name \o "_er_diagram.dot")
        with_dot == WriteFile(with_json, dot_path, dot_content)
        with_sql == SaveSqlFiles(with_dot, sch, output_dir, 1)
        normalization_analysis == check_normalization_level(sch, <<>>).analysis
        analysis_path ==
            PathJoin(output_dir, sch.name \o "_normalization_analysis.json")
    IN  JsonDump(with_sql, analysis_path, normalization_analysis)

(***************************************************************************)
(* analyze_existing_database.  The SQLite file is a path and the tables    *)
(* created in it, in creation order; a table is its name, its column       *)
(* definitions, its foreign-key declarations in the order of the CREATE    *)
(* TABLE statement (each a target table, the referring columns and the     *)
(* referred columns), and whether its key is AUTOINCREMENT.  The three     *)
(* queries of the code return what SQLite returns for such a file.         *)
(***************************************************************************)
\* a column definition <name> <type> with no constraint
SourceColumn(name, type) ==
    [name |-> name, type |-> type, notnull |-> FALSE, dflt_value |-> None,
     pk |-> FALSE, unique |-> FALSE]

\* The indexes SQLite creates by itself for a table: one for a primary key
\* that is not a single INTEGER column, one per UNIQUE column.
AutoIndexes(table) ==
    LET key == SelectSeq(table.columns, LAMBDA c : c.pk)
        n == (IF Len(key) > 1 \/ (Len(key) = 1 /\ key[1].type # "INTEGER")
              THEN 1 ELSE 0)
                 + Len(SelectSeq(table.columns, LAMBDA c : c.unique))
    IN  [k \in 1..n |->
            [type |-> "index",
             name |-> "sqlite_autoindex_" \o table.name \o "_" \o ToString(k)]]

RECURSIVE MasterRowsFrom(_, _, _)
\* the rows of sqlite_master for the tables t.. of the file; sequenced says
\* whether sqlite_sequence exists already
MasterRowsFrom(db, t, sequenced) ==
    IF t > Len(db.tables) THEN <<>>
    ELSE <<[type |-> "table", name |-> db.tables[t].name]>>
             \o AutoIndexes(db.tables[t])
             \o (IF db.tables[t].autoincrement /\ ~sequenced
                 THEN <<[type |-> "table", name |-> "sqlite_sequence"]>>
                 ELSE <<>>)
             \o MasterRowsFrom(db, t + 1,
                               sequenced \/ db.tables[t].autoincrement)

\* SELECT name FROM sqlite_master WHERE type='table'
SelectTableNames(db) ==
    SeqMap(LAMBDA row : row.name,
           SelectSeq(MasterRowsFrom(db, 1, FALSE),
                     LAMBDA row : row.type = "table"))

\* the table of the file with the given name
SourceTable(db, name) ==
    db.tables[CHOOSE t \in 1..Len(db.tables) : db.tables[t].name = name]

\* the rank of column i in its table's primary key, 0 outside the key
KeyRank(table, i) ==
    IF table.columns[i].pk
    THEN Cardinality({j \in 1..i : table.columns[j].pk})
    ELSE 0

\* PRAGMA table_info(table_name): one row per column
PragmaTableInfo(db, table_name) ==
    IF table_name = "sqlite_sequence"
    THEN <<[cid |-> 0, name |-> "name", type |-> "", notnull |-> 0,
            dflt_value |-> None, pk |-> 0],
           [cid |-> 1, name |-> "seq", type |-> "", notnull |-> 0,
            dflt_value |-> None, pk |-> 0]>>
    ELSE LET table == SourceTable(db, table_name)
         IN  [i \in 1..Len(table.columns) |->
                 [cid |-> i - 1,
                  name |-> table.columns[i].name,
                  type |-> table.columns[i].type,
                  notnull |-> IF table.columns[i].notnull THEN 1 ELSE 0,
                  dflt_value |-> table.columns[i].dflt_value,
                  pk |-> KeyRank(table, i)]]

\* the rows of one foreign-key declaration: one per referring column
ForeignKeyRows(id, fk) ==
    [k \in 1..Len(fk.from) |->
        [id |-> id, seq |-> k - 1, table |-> fk.table, from |-> fk.from[k],
         to |-> IF k <= Len(fk.to) THEN fk.to[k] ELSE None]]

RECURSIVE ForeignKeyRowsFrom(_, _)
\* the rows of the declarations of ids id.. : id 0 is the last declaration
\* of the CREATE TABLE statement
ForeignKeyRowsFrom(fks, id) ==
    IF id >= Len(fks) THEN <<>>
    ELSE ForeignKeyRows(id, fks[Len(fks) - id])
             \o ForeignKeyRowsFrom(fks, id + 1)

\* PRAGMA foreign_key_list(table_name)
PragmaForeignKeyList(db, table_name) ==
    IF table_name = "sqlite_sequence" THEN <<>>
    ELSE ForeignKeyRowsFrom(SourceTable(db, table_name).foreign_keys, 0)

\* the Column built from a row of table_info
ColumnOfInfo(col_info) ==
    [Column(col_info.name, col_info.type) EXCEPT
        !.nullable = (col_info.notnull = 0),
        !.primary_key = (col_info.pk # 0),
        !.default_value = IF col_info.dflt_value = None THEN DefaultNone
                          ELSE DefaultStr(col_info.dflt_value)]

\* the body of the loop over fk_info for one row; acc holds columns,
\* foreign_keys and relationships
ProcessForeignKey(acc, table_name, fk) ==
    [columns |->
         SeqMap(LAMBDA col :
                    IF col.name = fk.from
                    THEN [col EXCEPT !.foreign_key = fk.table \o "." \o fk.to]
                    ELSE col,
                acc.columns),
     foreign_keys |->
         Append(acc.foreign_keys,
                [source_column |-> fk.from, target_table |-> fk.table,
                 target_column |-> fk.to]),
     relationships |->
         Append(acc.relationships,
                [Relationship(table_name, fk.table, <<fk.from>>, <<fk.to>>,
                              "many-to-one") EXCEPT
                    !.constraint_name = "fk_" \o table_name \o "_" \o fk.from])]

RECURSIVE ProcessForeignKeys(_, _, _, _)
\* for fk in fk_info, from the k-th row on
ProcessForeignKeys(acc, table_name, fk_info, k) ==
    IF k > Len(fk_info) THEN acc
    ELSE ProcessForeignKeys(ProcessForeignKey(acc, table_name, fk_info[k]),
                            table_name, fk_info, k + 1)

\* the body of the loop over table_names for one table: the Table built and
\* relationships after it
AnalyzeTable(db, table_name, relationships) ==
    LET columns_info == PragmaTableInfo(db, table_name)
        acc == ProcessForeignKeys(
                   [columns |-> SeqMap(ColumnOfInfo, columns_info),
                    foreign_keys |-> <<>>,
                    relationships |-> relationships],
                   table_name, PragmaForeignKeyList(db, table_name), 1)
    IN  [table |-> Table(table_name, acc.columns,
                         SeqMap(LAMBDA col_info : col_info.name,
                                SelectSeq(columns_info,
                                          LAMBDA col_info : col_info.pk # 0)),
                         acc.foreign_keys, ""),
         relationships |-> acc.relationships]

RECURSIVE AnalyzeTables(_, _, _, _, _)
\* for table_name in table_names, from the t-th on
AnalyzeTables(db, table_names, t, tables, relationships) ==
    IF t > Len(table_names) THEN [tables |-> tables,
                                  relationships |-> relationships]
    ELSE LET r == AnalyzeTable(db, table_names[t], relationships)
         IN  AnalyzeTables(db, table_names, t + 1, Append(tables, r.table),
                           r.relationships)

RECURSIVE Basename(_)
\* os.path.basename(path)
Basename(path) ==
    IF Contains(path, "/")
    THEN Basename(SubSeq(path, Len(SplitFirst(path, "/")) + 2, Len(path)))
    ELSE path

\* analyze_existing_database(db_path), db the file at db_path
analyze_existing_database(db) ==
    LET r == AnalyzeTables(db, SelectTableNames(db), 1, <<>>, <<>>)
    IN  DatabaseSchema(Replace(Basename(db.path), ".db", ""), r.tables,
                       r.relationships)

\* The queries one call makes of the file: sqlite3.connect, the SELECT of
\* the table names, then PRAGMA table_info and PRAGMA foreign_key_list for
\* each table.
Queries(db) == 2 + 2 * Len(SelectTableNames(db))

\* except Exception as e: logger.error(...); raise
\* (conn, tables and relationships are the locals the failed try block left)
Reraise_ReturnPartial(db, conn, tables, relationships) ==
    [outcome |-> "returned", connection |-> conn,
     result |-> DatabaseSchema(Replace(Basename(db.path), ".db", ""), tables,
                               relationships)]

Reraise(db, conn, tables, relationships) ==
    [outcome |-> "raised", connection |-> conn, result |-> None]

\* One call of analyze_existing_database(db_path) in which the first
\* `succeeding` queries succeed and the next one, if there is one, raises:
\* how the call ends, the state of the connection it opened, and what the
\* caller receives.
Inspect(db, succeeding) ==
    LET table_names == SelectTableNames(db)
        \* tables whose two PRAGMA queries both succeeded
        done == IF succeeding < 2 THEN 0 ELSE (succeeding - 2) \div 2
        r == AnalyzeTables(db, SubSeq(table_names, 1, done), 1, <<>>, <<>>)
    IN  IF succeeding = 0    \* sqlite3.connect raised: conn was never bound
        THEN Reraise(db, "none", <<>>, <<>>)
        ELSE IF succeeding < Queries(db)
        THEN Reraise(db, "open", r.tables, r.relationships)
        ELSE \* conn.close() and return schema
             [outcome |-> "returned", connection |-> "closed",
              result |-> analyze_existing_database(db)]

(***************************************************************************)
(* Concurrent calls.  Every call runs in a thread of its own on one shared *)
(* DatabaseDesignAnalyzer object; a thread's frame holds the call's        *)
(* arguments, its position (pc, and t in a loop over the tables), its      *)
(* local variables and, once it has returned, its result.  One step is the *)
(* entry of the function, one iteration of a loop over schema.tables, or   *)
(* the statements from the end of the last loop to the return.  A step     *)
(* gets the shared object and the thread's frame, and gives both back.     *)
(***************************************************************************)
\* DatabaseDesignAnalyzer(): __init__ sets design_patterns, nothing else
NewAnalyzer ==
    [design_patterns |->
        [user_management |->
             [tables |-> <<"users", "roles", "permissions", "user_roles">>,
              description |-> "Standard user management pattern"],
         e_commerce |->
             [tables |-> <<"customers", "products", "orders", "order_items",
                           "categories">>,
              description |-> "E-commerce domain pattern"],
         blog_cms |->
             [tables |-> <<"users", "posts", "categories", "comments", "tags",
                           "post_tags">>,
              description |-> "Blog/CMS content management pattern"]]]

\* the frame of a thread that runs no call
Idle == [pc |-> "idle"]

\* the frame of a call that has not executed its first statement
Frame(operation, sch, dialect) ==
    [operation |-> operation, schema |-> sch, dialect |-> dialect,
     pc |-> "called", t |-> 1, locals |-> <<>>, result |-> None]

\* check_normalization_level with analysis kept in an attribute of the
\* analyzer object (self.analysis) instead of a local variable
CheckStep_OnInstance(shared, frame) ==
    IF frame.pc = "called"
    THEN [analyzer |-> [design_patterns |-> shared.design_patterns,
                        analysis |-> NewAnalysis],
          frame |-> [frame EXCEPT !.pc = "tables"]]
    ELSE IF frame.t <= Len(frame.schema.tables)
    THEN [analyzer |-> [shared EXCEPT !.analysis =
                            CheckTable(@, frame.schema.tables[frame.t])],
          frame |-> [frame EXCEPT !.t = @ + 1]]
    ELSE [analyzer |-> shared,
          frame |-> [frame EXCEPT !.pc = "returned",
                                  !.result = Recommend(shared.analysis)]]

\* one step of check_normalization_level(schema)
CheckStep(shared, frame) ==
    IF frame.pc = "called"
    THEN [analyzer |-> shared,
          frame |-> [frame EXCEPT !.pc = "tables",
                                  !.locals = [analysis |-> NewAnalysis]]]
    ELSE IF frame.t <= Len(frame.schema.tables)
    THEN [analyzer |-> shared,
          frame |-> [frame EXCEPT
                         !.t = @ + 1,
                         !.locals.analysis =
                             CheckTable(@, frame.schema.tables[frame.t])]]
    ELSE [analyzer |-> shared,
          frame |-> [frame EXCEPT
                         !.pc = "returned",
                         !.result = Recommend(frame.locals.analysis)]]

\* one step of generate_normalized_schema(schema)
NormalizeStep(shared, frame) ==
    IF frame.pc = "called"
    THEN [analyzer |-> shared,
          frame |-> [frame EXCEPT
                         !.pc = "tables",
                         !.locals = [normalized_tables |-> <<>>,
                                     normalized_relationships |-> <<>>]]]
    ELSE IF frame.t <= Len(frame.schema.tables)
    THEN LET st == NormalizeTable(frame.schema.tables[frame.t])
         IN  [analyzer |-> shared,
              frame |-> [frame EXCEPT
                             !.t = @ + 1,
                             !.schema.tables[frame.t] = st.table,
                             !.locals.normalized_tables = @ \o st.tables,
                             !.locals.normalized_relationships =
                                 @ \o st.relationships]]
    ELSE [analyzer |-> shared,
          frame |-> [frame EXCEPT
                         !.pc = "returned",
                         !.result =
                             DatabaseSchema(
                                 frame.schema.name \o "_normalized",
                                 frame.locals.normalized_tables,
                                 frame.schema.relationships
                                     \o frame.locals.normalized_relationships)]]

\* one step of export_schema_to_sql(schema, dialect)
ExportStep(shared, frame) ==
    LET tables == frame.schema.tables
    IN  IF frame.pc = "called"
        THEN [analyzer |-> shared,
              frame |-> [frame EXCEPT
                             !.pc = "tables",
                             !.locals =
                                 [mapping |-> MappingFor(frame.dialect),
                                  sql_statements |->
                                      <<"-- Database Schema: "
                                            \o frame.schema.name,
                                        "-- Generated for "
                                            \o Upper(frame.dialect),
                                        "-- Tables: "
                                            \o ToString(Len(tables)),
                                        "">>]]]
        ELSE IF frame.pc = "tables" /\ frame.t <= Len(tables)
        THEN [analyzer |-> shared,
              frame |-> [frame EXCEPT
                             !.t = @ + 1,
                             !.locals.sql_statements =
                                 @ \o CreateStatements(tables[frame.t],
                                                       frame.locals.mapping)]]
        ELSE IF frame.pc = "tables"
        THEN [analyzer |-> shared,
              frame |-> [frame EXCEPT !.pc = "alters", !.t = 1]]
        ELSE IF frame.t <= Len(tables)
        THEN [analyzer |-> shared,
              frame |-> [frame EXCEPT
                             !.t = @ + 1,
                             !.locals.sql_statements =
                                 @ \o SeqMap(LAMBDA fk :
                                                 AlterStatement(
                                                     tables[frame.t], fk),
                                             tables[frame.t].foreign_keys)]]
        ELSE [analyzer |-> shared,
              frame |-> [frame EXCEPT
                             !.pc = "returned",
                             !.result =
                                 Join(frame.locals.sql_statements, "\n")]]

\* one step of the call the frame belongs to
ThreadStep(shared, frame) ==
    IF frame.operation = "check_normalization_level"
    THEN CheckStep(shared, frame)
    ELSE IF frame.operation = "generate_normalized_schema"
    THEN NormalizeStep(shared, frame)
    ELSE ExportStep(shared, frame)

(***************************************************************************)
(* The /api/analyze-schema handler of enhanced_app.py.  The server runs    *)
(* each request in a thread of its own; the upload folder is shared.  A    *)
(* file is who uploaded it (0: nobody, sqlite3.connect created it),        *)
(* whether it is a SQLite database, and the tables in it.  A request's     *)
(* frame holds what the client sent, the handler's position and locals,    *)
(* the upload its analysis read, and the response.  The steps are: entry   *)
(* to the saved upload, the analysis, the os.path.exists test, and         *)
(* os.remove with the response.                                            *)
(***************************************************************************)
UPLOAD_FOLDER == "uploads"

\* the analysis of a request has read no file yet
NotRead == -1

RECURSIVE StripChars(_, _)
\* s.strip(chars)
StripChars(s, chars) ==
    IF s = "" THEN s
    ELSE IF Contains(chars, SubSeq(s, 1, 1))
    THEN StripChars(SubSeq(s, 2, Len(s)), chars)
    ELSE IF Contains(chars, SubSeq(s, Len(s), Len(s)))
    THEN StripChars(SubSeq(s, 1, Len(s) - 1), chars)
    ELSE s

\* werkzeug's secure_filename, for names of ASCII letters, digits, dots,
\* dashes, underscores, slashes and single spaces: path separators become
\* spaces, the words are joined with "_", and dots and underscores are
\* stripped from both ends
secure_filename(filename) ==
    StripChars(Replace(Replace(filename, "/", " "), " ", "_"), "._")

\* the folder with the file at path holding content
SaveFile(folder, path, content) ==
    [q \in DOMAIN folder \cup {path} |->
        IF q = path THEN content ELSE folder[q]]

\* the folder without the file at path
RemoveFile(folder, path) == [q \in DOMAIN folder \ {path} |-> folder[q]]

\* return jsonify({"error": message}), status
ErrorResponse(frame, message, status) ==
    [frame EXCEPT !.pc = "ended",
                  !.response = [status |-> status, error |-> message]]

\* process_db_file() of the request `self`, with the content of the
\* uploaded file overwriting whatever the path held
ProcessDbFile(folder, self, frame) ==
    IF ~frame.db_file.sent    \* 'db_file' not in request.files
    THEN [folder |-> folder,
          frame |-> ErrorResponse(frame, "No database file provided.", 400)]
    ELSE LET filename == secure_filename(frame.db_file.filename)
             db_path == PathJoin(UPLOAD_FOLDER, filename)
         IN  [folder |-> SaveFile(folder, db_path,
                                  [by |-> self,
                                   valid |-> frame.db_file.valid,
                                   tables |-> frame.db_file.tables]),
              frame |-> [frame EXCEPT !.pc = "saved", !.db_path = db_path]]

\* analyze_schema from its entry to the return of process_db_file
EnterAnalyzeSchema(folder, self, frame) ==
    IF frame.db_type = "sqlite"
    THEN ProcessDbFile(folder, self, frame)
    ELSE [folder |-> folder,
          frame |-> ErrorResponse(
                        frame,
                        "Schema analysis currently supported only for SQLite",
                        400)]

\* schema = analyzer.analyze_existing_database(db_path) and
\* normalization_analysis = analyzer.check_normalization_level(schema), on
\* the file the path holds now; sqlite3.connect creates an empty database
\* when the path holds none, and the first query raises when the file is
\* not a database
AnalyzeUpload(folder, self, frame) ==
    LET present == frame.db_path \in DOMAIN folder
        opened == IF present THEN folder
                  ELSE SaveFile(folder, frame.db_path,
                                [by |-> 0, valid |-> TRUE, tables |-> <<>>])
        file == opened[frame.db_path]
        db == [path |-> frame.db_path, tables |-> file.tables]
        r == Inspect(db, IF file.valid THEN Queries(db) ELSE 1)
    IN  IF r.outcome = "raised"
        THEN [folder |-> opened,
              frame |-> ErrorResponse([frame EXCEPT !.read = file.by],
                                      "Schema analysis failed", 500)]
        ELSE [folder |-> opened,
              frame |-> [frame EXCEPT
                             !.pc = "analyzed",
                             !.read = file.by,
                             !.schema = r.result,
                             !.normalization_analysis =
                                 check_normalization_level(r.result, <<>>)
                                     .analysis]]

\* if db_path and os.path.exists(db_path):
TestExists(folder, self, frame) ==
    IF frame.db_path # "" /\ frame.db_path \in DOMAIN folder
    THEN [folder |-> folder, frame |-> [frame EXCEPT !.pc = "removing"]]
    ELSE [folder |-> folder,
          frame |-> [frame EXCEPT
                         !.pc = "ended",
                         !.response =
                             [status |-> 200,
                              schema_name |-> frame.schema.name,
                              tables_count |-> Len(frame.schema.tables),
                              relationships_count |->
                                  Len(frame.schema.relationships),
                              normalization_analysis |->
                                  frame.normalization_analysis]]]

\* os.remove(db_path) and return jsonify({...}); os.remove raises when the
\* file is gone, and the handler answers 500
RemoveUpload(folder, self, frame) ==
    IF frame.db_path \notin DOMAIN folder
    THEN [folder |-> folder,
          frame |-> ErrorResponse(frame, "Schema analysis failed", 500)]
    ELSE [folder |-> RemoveFile(folder, frame.db_path),
          frame |-> [frame EXCEPT
                         !.pc = "ended",
                         !.response =
                             [status |-> 200,
                              schema_name |-> frame.schema.name,
                              tables_count |-> Len(frame.schema.tables),
                              relationships_count |->
                                  Len(frame.schema.relationships),
                              normalization_analysis |->
                                  frame.normalization_analysis]]]

\* the next step of a request's handler
HandlerStep(folder, self, frame) ==
    IF frame.pc = "received" THEN EnterAnalyzeSchema(folder, self, frame)
    ELSE IF frame.pc = "saved" THEN AnalyzeUpload(folder, self, frame)
    ELSE IF frame.pc = "analyzed" THEN TestExists(folder, self, frame)
    ELSE RemoveUpload(folder, self, frame)

(***************************************************************************)
(* Input schemas, built the way create_sample_ecommerce_schema builds its  *)
(* tables: primary_keys lists the columns flagged primary_key, and         *)
(* foreign_keys holds one entry per column that declares a foreign_key.    *)
(***************************************************************************)
\* s after its first sep
AfterFirst(s, sep) == SubSeq(s, Len(SplitFirst(s, sep)) + Len(sep) + 1, Len(s))

\* the foreign_keys entry of a column declared foreign_key = "table.column"
ForeignKeyOf(col) ==
    [source_column |-> col.name,
     target_table |-> SplitFirst(col.foreign_key, "."),
     target_column |-> AfterFirst(col.foreign_key, ".")]

\* a table of the given name and description, with the given columns
MakeTable(name, description, columns) ==
    Table(name, columns,
          SeqMap(LAMBDA c : c.name,
                 SelectSeq(columns, LAMBDA c : c.primary_key)),
          SeqMap(ForeignKeyOf,
                 SelectSeq(columns, LAMBDA c : c.foreign_key # None)),
          description)

\* one "one-to-many" relationship per foreign key, target table first
RelationshipsOf(tables) ==
    LET RECURSIVE All(_)
        All(t) ==
            IF t > Len(tables) THEN <<>>
            ELSE SeqMap(LAMBDA fk :
                            Relationship(fk.target_table, tables[t].name,
                                         <<fk.target_column>>,
                                         <<fk.source_column>>, "one-to-many"),
                        tables[t].foreign_keys) \o All(t + 1)
    IN  All(1)

\* the lists of n columns of the pool with pairwise distinct names
ColumnLists(pool, n) ==
    {cols \in [1..n -> pool] :
        \A i, j \in 1..n : i # j => cols[i].name # cols[j].name}

RECURSIVE TableLists(_, _, _, _)
\* The lists of at most m tables holding at most c columns together, each
\* table made from one of the templates k.. (a name, a description and the
\* columns it may have), in the order of the templates.
TableLists(templates, k, m, c) ==
    IF k > Len(templates) \/ m = 0 THEN {<<>>}
    ELSE TableLists(templates, k + 1, m, c) \cup
         UNION {{<<MakeTable(templates[k].name, templates[k].description, cols)>>
                    \o rest :
                 cols \in ColumnLists(templates[k].pool, n),
                 rest \in TableLists(templates, k + 1, m - 1, c - n)} :
                n \in 0..c}

\* every schema of at most MaxTables tables and MaxCols columns
SchemasOver(templates) ==
    {DatabaseSchema("shop", tables, RelationshipsOf(tables)) :
        tables \in TableLists(templates, 1, MaxTables, MaxCols)}

\* tables whose column names exercise the analyzer's three heuristics
AnalyzerTables ==
    <<[name |-> "order_items", description |-> "Individual items within orders",
       pool |-> {[Column("order_id", "INTEGER") EXCEPT
                      !.primary_key = TRUE, !.nullable = FALSE,
                      !.foreign_key = "orders.id"],
                 [Column("product_id", "INTEGER") EXCEPT
                      !.primary_key = TRUE, !.nullable = FALSE],
                 [Column("order_date", "TIMESTAMP") EXCEPT !.nullable = FALSE],
                 Column("ordered_at", "TIMESTAMP")}],
      [name |-> "products", description |-> "Product catalog",
       pool |-> {[Column("category_id", "INTEGER") EXCEPT
                      !.foreign_key = "categories.id"],
                 Column("category_name", "VARCHAR(100)"),
                 Column("part_idx", "INTEGER"),
                 Column("part_idx_hint", "TEXT")}],
      [name |-> "events", description |-> "",
       pool |-> {[Column("id", "INTEGER") EXCEPT
                      !.primary_key = TRUE, !.nullable = FALSE],
                 Column("JSON_data", "TEXT"),
                 Column("multi_list", "TEXT"),
                 Column("title", "VARCHAR(200)")}]>>

\* tables whose column names exercise the normalizer's token matching
NormalizerTables ==
    <<[name |-> "orders", description |-> "Customer orders",
       pool |-> {[Column("id", "INTEGER") EXCEPT
                      !.primary_key = TRUE, !.nullable = FALSE],
                 [Column("status", "VARCHAR(50)") EXCEPT !.nullable = FALSE],
                 Column("order_status", "TEXT"),
                 [Column("customer_id", "INTEGER") EXCEPT
                      !.nullable = FALSE, !.foreign_key = "customers.id"]}],
      [name |-> "products", description |-> "Product catalog",
       pool |-> {[Column("category_id", "INTEGER") EXCEPT
                      !.foreign_key = "categories.id"],
                 Column("Price_Level", "REAL"),
                 Column("priority_type", "TEXT"),
                 [Column("name", "VARCHAR(200)") EXCEPT !.nullable = FALSE]}],
      [name |-> "tickets", description |-> "",
       pool |-> {[Column("status", "INTEGER") EXCEPT
                      !.primary_key = TRUE, !.nullable = FALSE],
                 Column("ticket_status", "TEXT"),
                 Column("Type", "TEXT"),
                 Column("title", "VARCHAR(200)")}]>>

\* tables whose columns exercise the exporter's type mapping and flags
ExporterTables ==
    <<[name |-> "customers", description |-> "Customer information",
       pool |-> {[Column("id", "INTEGER") EXCEPT
                      !.primary_key = TRUE, !.nullable = FALSE],
                 [Column("email", "VARCHAR(255)") EXCEPT
                      !.nullable = FALSE, !.unique = TRUE],
                 [Column("segment", "VARCHAR") EXCEPT
                      !.default_value = DefaultStr("new")]}],
      [name |-> "products", description |-> "Product catalog",
       pool |-> {[Column("category_id", "INTEGER") EXCEPT
                      !.foreign_key = "categories.id"],
                 [Column("price", "REAL") EXCEPT
                      !.nullable = FALSE,
                      !.default_value = DefaultInt(0)],
                 Column("image", "BLOB")}],
      [name |-> "categories", description |-> "",
       pool |-> {[Column("id", "INTEGER") EXCEPT
                      !.primary_key = TRUE, !.nullable = FALSE],
                 [Column("code", "TEXT") EXCEPT
                      !.primary_key = TRUE, !.nullable = FALSE,
                      !.unique = TRUE],
                 [Column("owner_id", "INTEGER") EXCEPT
                      !.foreign_key = "customers.id"]}]>>

\* no file: the caller builds its schema itself
NoDatabase == [path |-> "", tables |-> <<>>]

\* A table of a file made from a template with the given columns: it keeps
\* the template's foreign-key declarations whose columns it has, and is
\* AUTOINCREMENT when the template is and it has the key column.
MakeSourceTable(template, columns) ==
    [name |-> template.name,
     columns |-> columns,
     foreign_keys |->
         SelectSeq(template.foreign_keys,
                   LAMBDA fk : \A k \in 1..Len(fk.from) :
                       \E i \in 1..Len(columns) : columns[i].name = fk.from[k]),
     autoincrement |->
         template.autoincrement /\ \E i \in 1..Len(columns) : columns[i].pk]

RECURSIVE SourceTableLists(_, _, _, _)
\* The lists of at most m tables of a file holding at most c columns
\* together, each made from one of the templates k.., in their order; a
\* table of a file has at least one column.
SourceTableLists(templates, k, m, c) ==
    IF k > Len(templates) \/ m = 0 THEN {<<>>}
    ELSE SourceTableLists(templates, k + 1, m, c) \cup
         UNION {{<<MakeSourceTable(templates[k], cols)>> \o rest :
                    cols \in ColumnLists(templates[k].pool, n),
                    rest \in SourceTableLists(templates, k + 1, m - 1, c - n)} :
                n \in 1..c}

\* tables of a file: a key that is AUTOINCREMENT, a two-column key, a
\* column-level foreign key, one over two columns, and one that names no
\* column of its target
SourceTables ==
    <<[name |-> "customers", autoincrement |-> TRUE,
       foreign_keys |-> <<>>,
       pool |-> {[SourceColumn("id", "INTEGER") EXCEPT !.pk = TRUE],
                 [SourceColumn("email", "VARCHAR(255)") EXCEPT
                      !.notnull = TRUE, !.unique = TRUE],
                 [SourceColumn("segment", "TEXT") EXCEPT
                      !.dflt_value = "'new'"]}],
      [name |-> "order_items", autoincrement |-> FALSE,
       foreign_keys |-> <<[table |-> "orders", from |-> <<"order_id">>,
                           to |-> <<>>]>>,
       pool |-> {[SourceColumn("order_id", "INTEGER") EXCEPT
                      !.pk = TRUE, !.notnull = TRUE],
                 [SourceColumn("product_id", "INTEGER") EXCEPT
                      !.pk = TRUE, !.notnull = TRUE],
                 [SourceColumn("quantity", "INTEGER") EXCEPT
                      !.notnull = TRUE, !.dflt_value = "1"]}],
      [name |-> "shipments", autoincrement |-> FALSE,
       foreign_keys |-> <<[table |-> "customers", from |-> <<"customer_id">>,
                           to |-> <<"id">>],
                          [table |-> "order_items",
                           from |-> <<"order_id", "product_id">>,
                           to |-> <<"order_id", "product_id">>]>>,
       pool |-> {SourceColumn("order_id", "INTEGER"),
                 SourceColumn("product_id", "INTEGER"),
                 SourceColumn("customer_id", "INTEGER")}]>>

\* the paths a caller gives
Paths == {"shop.db", "data/sales.db"}

\* every file of at most MaxTables tables and MaxCols columns
Databases ==
    {[path |-> path, tables |-> tables] :
        path \in Paths,
        tables \in SourceTableLists(SourceTables, 1, MaxTables, MaxCols)}

\* the dialects a caller asks for: the three of the mapping and one outside
Dialects == {"mysql", "postgresql", "sqlite", "oracle"}

(***************************************************************************)
(* The analyzer's specification: a caller builds a schema and calls        *)
(* check_normalization_level on it, keeping every report it gets.          *)
\* the caller's record of save_schema_documentation runs before any run
NotDocumented == [runs |-> 0, latest |-> None, overwrote |-> FALSE]

(***************************************************************************)
InitAnalyzer ==
    /\ schema \in SchemasOver(AnalyzerTables)
    /\ original = schema
    /\ reports = <<>>
    /\ returned = <<>>
    /\ normalized = <<>>
    /\ exported = <<>>
    /\ database = NoDatabase
    /\ analyzed = <<>>
    /\ inspections = <<>>
    /\ filesystem = [directories |-> {}, files |-> <<>>]
    /\ documented = NotDocumented
    /\ analyzer = NewAnalyzer
    /\ threads = <<>>
    /\ renormalized = <<>>
    /\ uploads = <<>>
    /\ requests = <<>>

CheckNormalizationLevel ==
    /\ Len(reports) < MaxCalls
    /\ LET r == check_normalization_level(schema, reports)
       IN  /\ schema' = r.schema
           /\ reports' = Append(r.held, r.analysis)
           /\ returned' = Append(returned, r.analysis)
    /\ UNCHANGED <<original, normalized, exported, database, analyzed,
                   inspections, filesystem, documented,
                   analyzer, threads, renormalized, uploads,
                   requests>>

NextAnalyzer == CheckNormalizationLevel

SpecAnalyzer == InitAnalyzer /\ [][NextAnalyzer]_vars

(***************************************************************************)
(* The normalizer's specification: a caller builds a schema and calls      *)
(* generate_normalized_schema on it, keeping every schema it gets.         *)
(***************************************************************************)
InitNormalizer ==
    /\ schema \in SchemasOver(NormalizerTables)
    /\ original = schema
    /\ reports = <<>>
    /\ returned = <<>>
    /\ normalized = <<>>
    /\ exported = <<>>
    /\ database = NoDatabase
    /\ analyzed = <<>>
    /\ inspections = <<>>
    /\ filesystem = [directories |-> {}, files |-> <<>>]
    /\ documented = NotDocumented
    /\ analyzer = NewAnalyzer
    /\ threads = <<>>
    /\ renormalized = <<>>
    /\ uploads = <<>>
    /\ requests = <<>>

GenerateNormalizedSchema ==
    /\ Len(normalized) < MaxCalls
    /\ LET r == generate_normalized_schema(schema)
       IN  /\ schema' = r.schema
           /\ normalized' = Append(normalized, r.result)
    /\ UNCHANGED <<original, reports, returned, exported, database, analyzed,
                   inspections, filesystem, documented,
                   analyzer, threads, renormalized, uploads,
                   requests>>

NextNormalizer == GenerateNormalizedSchema

SpecNormalizer == InitNormalizer /\ [][NextNormalizer]_vars

(***************************************************************************)
(* The exporter's specification: a caller builds a schema and calls        *)
(* export_schema_to_sql on it with a dialect, keeping every text it gets.  *)
(***************************************************************************)
InitExporter ==
    /\ schema \in SchemasOver(ExporterTables)
    /\ original = schema
    /\ reports = <<>>
    /\ returned = <<>>
    /\ normalized = <<>>
    /\ exported = <<>>
    /\ database = NoDatabase
    /\ analyzed = <<>>
    /\ inspections = <<>>
    /\ filesystem = [directories |-> {}, files |-> <<>>]
    /\ documented = NotDocumented
    /\ analyzer = NewAnalyzer
    /\ threads = <<>>
    /\ renormalized = <<>>
    /\ uploads = <<>>
    /\ requests = <<>>

\* Export with the number of the call written into the text, as an exporter
\* that counts its calls would
Export_Counted(dialects, max) ==
    /\ Len(exported) < max
    /\ \E dialect \in dialects :
          exported' = Append(exported,
                             [dialect |-> dialect,
                              text |-> export_schema_to_sql(schema, dialect)
                                           \o "\n-- Export: "
                                           \o ToString(Len(exported) + 1)])
    /\ UNCHANGED <<schema, original, reports, returned, normalized,
                   database, analyzed, inspections,
                   filesystem, documented, analyzer, threads,
                   renormalized, uploads, requests>>

\* a call of export_schema_to_sql on the caller's schema with one of the
\* dialects, the caller holding fewer than max texts
Export(dialects, max) ==
    /\ Len(exported) < max
    /\ \E dialect \in dialects :
          exported' = Append(exported,
                             [dialect |-> dialect,
                              text |-> export_schema_to_sql(schema, dialect)])
    /\ UNCHANGED <<schema, original, reports, returned, normalized,
                   database, analyzed, inspections,
                   filesystem, documented, analyzer, threads,
                   renormalized, uploads, requests>>

ExportSchemaToSql == Export(Dialects, MaxExports)

NextExporter == ExportSchemaToSql

SpecExporter == InitExporter /\ [][NextExporter]_vars

(***************************************************************************)
(* A session: a caller builds a schema and calls the analyzer's three      *)
(* operations on it in any order, keeping every result.                    *)
(***************************************************************************)
\* tables whose columns all three operations have something to do with
SessionTables ==
    <<[name |-> "orders", description |-> "Customer orders",
       pool |-> {[Column("id", "INTEGER") EXCEPT
                      !.primary_key = TRUE, !.nullable = FALSE],
                 [Column("status", "VARCHAR") EXCEPT
                      !.nullable = FALSE,
                      !.default_value = DefaultStr("pending")],
                 [Column("customer_id", "INTEGER") EXCEPT
                      !.nullable = FALSE, !.foreign_key = "customers.id"]}],
      [name |-> "customers", description |-> "",
       pool |-> {[Column("id", "INTEGER") EXCEPT
                      !.primary_key = TRUE, !.nullable = FALSE],
                 [Column("email", "VARCHAR(255)") EXCEPT
                      !.nullable = FALSE, !.unique = TRUE],
                 Column("customer_type", "TEXT")}]>>

\* the dialects asked for in a session
SessionDialects == {"mysql", "sqlite"}

InitSession ==
    /\ schema \in SchemasOver(SessionTables)
    /\ original = schema
    /\ reports = <<>>
    /\ returned = <<>>
    /\ normalized = <<>>
    /\ exported = <<>>
    /\ database = NoDatabase
    /\ analyzed = <<>>
    /\ inspections = <<>>
    /\ filesystem = [directories |-> {}, files |-> <<>>]
    /\ documented = NotDocumented
    /\ analyzer = NewAnalyzer
    /\ threads = <<>>
    /\ renormalized = <<>>
    /\ uploads = <<>>
    /\ requests = <<>>

CheckInSession ==
    /\ Len(reports) + Len(normalized) < MaxCalls
    /\ CheckNormalizationLevel

NormalizeInSession ==
    /\ Len(reports) + Len(normalized) < MaxCalls
    /\ GenerateNormalizedSchema

ExportInSession == Export(SessionDialects, MaxCalls)

NextSession == CheckInSession \/ NormalizeInSession \/ ExportInSession

SpecSession == InitSession /\ [][NextSession]_vars

(***************************************************************************)
(* The inspector's specification: a caller points analyze_existing_database *)
(* at a SQLite file, keeping every schema it gets; any query of a call may   *)
(* fail.                                                                    *)
(***************************************************************************)
InitInspector ==
    /\ database \in Databases
    /\ schema = DatabaseSchema("", <<>>, <<>>)
    /\ original = schema
    /\ reports = <<>>
    /\ returned = <<>>
    /\ normalized = <<>>
    /\ exported = <<>>
    /\ analyzed = <<>>
    /\ inspections = <<>>
    /\ filesystem = [directories |-> {}, files |-> <<>>]
    /\ documented = NotDocumented
    /\ analyzer = NewAnalyzer
    /\ threads = <<>>
    /\ renormalized = <<>>
    /\ uploads = <<>>
    /\ requests = <<>>

AnalyzeExistingDatabase ==
    /\ Len(inspections) < MaxCalls
    /\ \E succeeding \in 0..Queries(database) :
           LET r == Inspect(database, succeeding)
           IN  /\ inspections' =
                      Append(inspections,
                             [failed |-> succeeding < Queries(database),
                              outcome |-> r.outcome,
                              connection |-> r.connection,
                              result |-> r.result])
               /\ analyzed' = IF r.outcome = "returned"
                              THEN Append(analyzed, r.result)
                              ELSE analyzed
    /\ UNCHANGED <<schema, original, reports, returned, normalized, exported,
                   database, filesystem, documented,
                   analyzer, threads, renormalized, uploads,
                   requests>>

NextInspector == AnalyzeExistingDatabase

SpecInspector == InitInspector /\ [][NextInspector]_vars

(***************************************************************************)
(* The specification of an analyzer whose caller builds its tables with    *)
(* Table(..., primary_keys=[...]) and leaves the Column primary_key flags  *)
(* at their default: the two are separate constructor arguments.           *)
(***************************************************************************)
\* the table with every Column's primary_key flag at its default, False
KeysListedOnly(table) ==
    [table EXCEPT !.columns =
        SeqMap(LAMBDA col : [col EXCEPT !.primary_key = FALSE], @)]

\* the schemas whose tables name their key in primary_keys only
ListedKeySchemas ==
    {[sch EXCEPT !.tables = SeqMap(KeysListedOnly, @)] :
        sch \in SchemasOver(AnalyzerTables)}

InitListedKeys ==
    /\ schema \in ListedKeySchemas
    /\ original = schema
    /\ reports = <<>>
    /\ returned = <<>>
    /\ normalized = <<>>
    /\ exported = <<>>
    /\ database = NoDatabase
    /\ analyzed = <<>>
    /\ inspections = <<>>
    /\ filesystem = [directories |-> {}, files |-> <<>>]
    /\ documented = NotDocumented
    /\ analyzer = NewAnalyzer
    /\ threads = <<>>
    /\ renormalized = <<>>
    /\ uploads = <<>>
    /\ requests = <<>>

SpecListedKeys == InitListedKeys /\ [][NextAnalyzer]_vars

(***************************************************************************)
(* The renormalizer's specification: a caller normalizes its schema and    *)
(* then passes a schema it got back to generate_normalized_schema again.   *)
(***************************************************************************)
InitRenormalizer ==
    /\ schema \in SchemasOver(SessionTables)
    /\ original = schema
    /\ reports = <<>>
    /\ returned = <<>>
    /\ normalized = <<>>
    /\ exported = <<>>
    /\ database = NoDatabase
    /\ analyzed = <<>>
    /\ inspections = <<>>
    /\ filesystem = [directories |-> {}, files |-> <<>>]
    /\ documented = NotDocumented
    /\ analyzer = NewAnalyzer
    /\ threads = <<>>
    /\ renormalized = <<>>
    /\ uploads = <<>>
    /\ requests = <<>>

\* generate_normalized_schema(normalized_schema), on the oldest result not
\* yet passed back
RenormalizeSchema ==
    /\ Len(renormalized) < Len(normalized)
    /\ LET k == Len(renormalized) + 1
           r == generate_normalized_schema(normalized[k])
       IN  /\ normalized' = [normalized EXCEPT ![k] = r.schema]
           /\ renormalized' = Append(renormalized, r.result)
    /\ UNCHANGED <<schema, original, reports, returned, exported, database,
                   analyzed, inspections, filesystem, documented, analyzer,
                   threads, uploads, requests>>

NextRenormalizer == GenerateNormalizedSchema \/ RenormalizeSchema

SpecRenormalizer == InitRenormalizer /\ [][NextRenormalizer]_vars

(***************************************************************************)
(* The documenter's specification: a caller saves the documentation of its  *)
(* schema into one directory, and between two runs may rebuild the schema   *)
(* under the same name.                                                     *)
(***************************************************************************)
\* tables of the documented schemas
DocumentedTables ==
    <<[name |-> "customers", description |-> "",
       pool |-> {[Column("id", "INTEGER") EXCEPT
                      !.primary_key = TRUE, !.nullable = FALSE],
                 Column("customer_type", "TEXT")}],
      [name |-> "orders", description |-> "Customer orders",
       pool |-> {[Column("customer_id", "INTEGER") EXCEPT
                      !.nullable = FALSE, !.foreign_key = "customers.id"],
                 Column("customer_name", "VARCHAR")}]>>

\* the directory the documentation is saved into
OutputDirs == {"docs"}

InitDocumenter ==
    /\ schema \in SchemasOver(DocumentedTables)
    /\ original = schema
    /\ reports = <<>>
    /\ returned = <<>>
    /\ normalized = <<>>
    /\ exported = <<>>
    /\ database = NoDatabase
    /\ analyzed = <<>>
    /\ inspections = <<>>
    /\ filesystem = [directories |-> {}, files |-> <<>>]
    /\ documented = NotDocumented
    /\ analyzer = NewAnalyzer
    /\ threads = <<>>
    /\ renormalized = <<>>
    /\ uploads = <<>>
    /\ requests = <<>>

SaveSchemaDocumentation ==
    /\ documented.runs < MaxCalls
    /\ \E output_dir \in OutputDirs :
           filesystem' = save_schema_documentation(filesystem, schema,
                                                   output_dir)
    /\ documented' = [runs |-> documented.runs + 1, latest |-> schema,
                      overwrote |-> /\ documented.runs > 0
                                    /\ documented.latest # schema]
    /\ UNCHANGED <<schema, original, reports, returned, normalized, exported,
                   database, analyzed, inspections, analyzer,
                   threads, renormalized, uploads, requests>>

\* the caller builds another schema of the same name
RebuildSchema ==
    /\ documented.runs > 0
    /\ documented.latest = schema
    /\ \E sch \in SchemasOver(DocumentedTables) :
           /\ sch # schema
           /\ sch.name = schema.name
           /\ schema' = sch
           /\ original' = sch
    /\ UNCHANGED <<reports, returned, normalized, exported, database,
                   analyzed, inspections, filesystem, documented,
                   analyzer, threads, renormalized, uploads,
                   requests>>

NextDocumenter == SaveSchemaDocumentation \/ RebuildSchema

SpecDocumenter == InitDocumenter /\ [][NextDocumenter]_vars

(***************************************************************************)
(* The threads' specification: NumThreads threads share one analyzer     *)
(* object; each calls one of the three functions on a schema of its own, *)
(* and the steps of the calls interleave in any order.                    *)
(***************************************************************************)
\* tables of the schemas the threads pass
ThreadTables ==
    <<[name |-> "orders", description |-> "Customer orders",
       pool |-> {Column("type_list", "TEXT")}],
      [name |-> "products", description |-> "Product catalog",
       pool |-> {[Column("category_id", "INTEGER") EXCEPT
                      !.foreign_key = "categories.id"]}]>>

\* the schemas the threads pass: every table has a column
ThreadSchemas ==
    {sch \in SchemasOver(ThreadTables) :
        \A t \in 1..Len(sch.tables) : Len(sch.tables[t].columns) > 0}

\* the functions the threads call
Operations ==
    {"check_normalization_level", "generate_normalized_schema",
     "export_schema_to_sql"}

\* the dialect an exporting thread asks for
ThreadDialects == {"postgresql"}

Threads == 1..NumThreads

InitThreads ==
    /\ schema = DatabaseSchema("", <<>>, <<>>)
    /\ original = schema
    /\ reports = <<>>
    /\ returned = <<>>
    /\ normalized = <<>>
    /\ exported = <<>>
    /\ database = NoDatabase
    /\ analyzed = <<>>
    /\ inspections = <<>>
    /\ filesystem = [directories |-> {}, files |-> <<>>]
    /\ documented = NotDocumented
    /\ analyzer = NewAnalyzer
    /\ threads = [self \in Threads |-> Idle]
    /\ renormalized = <<>>
    /\ uploads = <<>>
    /\ requests = <<>>

\* a thread calls one of the functions on a schema instance of its own
Call(self) ==
    /\ threads[self].pc = "idle"
    /\ \E operation \in Operations, sch \in ThreadSchemas,
          dialect \in ThreadDialects :
           threads' = [threads EXCEPT
                           ![self] = Frame(operation, sch, dialect)]
    /\ UNCHANGED <<schema, original, reports, returned, normalized, exported,
                   database, analyzed, inspections, filesystem, documented,
                   analyzer, renormalized, uploads, requests>>

\* a thread executes the next step of its call
Step(self) ==
    /\ threads[self].pc \notin {"idle", "returned"}
    /\ LET r == ThreadStep(analyzer, threads[self])
       IN  /\ analyzer' = r.analyzer
           /\ threads' = [threads EXCEPT ![self] = r.frame]
    /\ UNCHANGED <<schema, original, reports, returned, normalized, exported,
                   database, analyzed, inspections, filesystem, documented,
                   renormalized, uploads, requests>>

NextThreads == \E self \in Threads : Call(self) \/ Step(self)

SpecThreads == InitThreads /\ [][NextThreads]_vars

(***************************************************************************)
(* The upload specification: NumRequests clients post to                   *)
(* /api/analyze-schema, and the steps of their handlers interleave.        *)
(***************************************************************************)
\* the file names the clients give
Filenames == {"shop.db", "../shop.db", "sales.db"}

\* the files the clients upload: two databases and a file that is none
UploadedFiles ==
    {[valid |-> TRUE,
      tables |-> <<MakeSourceTable(
                       SourceTables[1],
                       <<[SourceColumn("id", "INTEGER") EXCEPT !.pk = TRUE],
                         [SourceColumn("segment", "TEXT") EXCEPT
                              !.dflt_value = "'new'"]>>)>>],
     [valid |-> TRUE,
      tables |-> <<MakeSourceTable(
                       SourceTables[3],
                       <<SourceColumn("order_id", "INTEGER"),
                         SourceColumn("customer_id", "INTEGER")>>)>>],
     [valid |-> FALSE, tables |-> <<>>]}

\* a request without the form field db_file
NoFile == [sent |-> FALSE, filename |-> "", valid |-> FALSE, tables |-> <<>>]

\* what a client may send: db_type and, for sqlite, a file or none
Posts ==
    {[db_type |-> "mysql", db_file |-> NoFile],
     [db_type |-> "sqlite", db_file |-> NoFile]}
    \cup {[db_type |-> "sqlite",
           db_file |-> [sent |-> TRUE, filename |-> filename,
                        valid |-> file.valid, tables |-> file.tables]] :
             filename \in Filenames, file \in UploadedFiles}

Requests == 1..NumRequests

InitUploads ==
    /\ schema = DatabaseSchema("", <<>>, <<>>)
    /\ original = schema
    /\ reports = <<>>
    /\ returned = <<>>
    /\ normalized = <<>>
    /\ exported = <<>>
    /\ database = NoDatabase
    /\ analyzed = <<>>
    /\ inspections = <<>>
    /\ filesystem = [directories |-> {}, files |-> <<>>]
    /\ documented = NotDocumented
    /\ analyzer = NewAnalyzer
    /\ threads = <<>>
    /\ renormalized = <<>>
    /\ uploads = <<>>
    /\ requests = [self \in Requests |-> Idle]

\* the server receives a request
Receive(self) ==
    /\ requests[self].pc = "idle"
    /\ \E post \in Posts :
           requests' = [requests EXCEPT
                            ![self] = [pc |-> "received",
                                       db_type |-> post.db_type,
                                       db_file |-> post.db_file,
                                       db_path |-> "", read |-> NotRead,
                                       schema |-> None,
                                       normalization_analysis |-> None,
                                       response |-> None]]
    /\ UNCHANGED <<schema, original, reports, returned, normalized, exported,
                   database, analyzed, inspections, filesystem, documented,
                   analyzer, threads, renormalized, uploads>>

\* a request's handler executes its next step
Handle(self) ==
    /\ requests[self].pc \notin {"idle", "ended"}
    /\ LET r == HandlerStep(uploads, self, requests[self])
       IN  /\ uploads' = r.folder
           /\ requests' = [requests EXCEPT ![self] = r.frame]
    /\ UNCHANGED <<schema, original, reports, returned, normalized, exported,
                   database, analyzed, inspections, filesystem, documented,
                   analyzer, threads, renormalized>>

NextUploads == \E self \in Requests : Receive(self) \/ Handle(self)

SpecUploads == InitUploads /\ [][NextUploads]_vars

(***************************************************************************)
(* Claims about check_normalization_level, checked under SpecAnalyzer.     *)
(***************************************************************************)
\* the three levels of a report
Levels(report) ==
    <<report.first_normal_form, report.second_normal_form,
      report.third_normal_form>>

\* a schema's columns in table order then column order, each with its table
ColumnRefs(sch) ==
    LET RECURSIVE From(_, _)
        From(t, i) ==
            IF t > Len(sch.tables) THEN <<>>
            ELSE IF i > Len(sch.tables[t].columns) THEN From(t + 1, 1)
            ELSE <<[table |-> sch.tables[t], column |-> sch.tables[t].columns[i]]>>
                 \o From(t, i + 1)
    IN  From(1, 1)

\* a schema's ordered pairs of columns of one table: tables in order, then the
\* first column in order, then the second
ColumnPairRefs(sch) ==
    LET RECURSIVE From(_, _, _)
        From(t, i, j) ==
            IF t > Len(sch.tables) THEN <<>>
            ELSE IF i > Len(sch.tables[t].columns) THEN From(t + 1, 1, 1)
            ELSE IF j > Len(sch.tables[t].columns) THEN From(t, i + 1, 1)
            ELSE <<[table |-> sch.tables[t], a |-> sch.tables[t].columns[i],
                    b |-> sch.tables[t].columns[j]]>> \o From(t, i, j + 1)
    IN  From(1, 1, 1)

\* C4: check_normalization_level does not mutate its argument, and a report
\* it returns is a fresh value: the schema always has the value the caller
\* built, and every report the caller holds still has the value it was
\* returned with, whatever calls came after.
C4_CheckLeavesSchemaAndReports ==
    /\ schema = original
    /\ reports = returned

\* C4's case: a second call returned after a first one that recorded violations
C4_Witness ==
    /\ Len(reports) = 2
    /\ Len(schema.tables) > 0
    /\ ~returned[1].first_normal_form.compliant
    /\ ~returned[1].third_normal_form.compliant

\* C5: in every report, for each of the three levels, compliant is true if
\* and only if the level's violations sequence is empty.
C5_CompliantIffNoViolations ==
    \A r \in 1..Len(reports) :
        \A l \in 1..3 :
            Levels(reports[r])[l].compliant
                <=> (Levels(reports[r])[l].violations = <<>>)

\* C5's case: a report with a compliant and a non-compliant level
C5_Witness ==
    /\ Len(reports) > 0
    /\ reports[1].first_normal_form.compliant
    /\ reports[1].first_normal_form.violations = <<>>
    /\ ~reports[1].third_normal_form.compliant
    /\ reports[1].third_normal_form.violations # <<>>

\* the 1NF trigger tokens, as the claim lists them
TriggerTokens == {"json", "array", "list", "multi"}

\* C6: the 1NF violations are exactly one (table, column) record for each
\* column whose lower-cased name contains a trigger token, in table order
\* then column order, and none for any other column; so a schema with no
\* such column is 1NF compliant with no violations.
C6_OneViolationPerTriggerColumn ==
    \A r \in 1..Len(reports) :
        LET hits == SelectSeq(ColumnRefs(schema),
                        LAMBDA ref : \E tok \in TriggerTokens :
                            Contains(Lower(ref.column.name), tok))
            level == reports[r].first_normal_form
        IN  /\ SeqMap(LAMBDA v : <<v.table, v.column>>, level.violations)
                 = SeqMap(LAMBDA ref : <<ref.table.name, ref.column.name>>, hits)
            /\ (hits = <<>>) => (level.compliant /\ level.violations = <<>>)

\* C6's case: a report on a table holding a column whose name has a trigger
\* token in upper case, one whose name has two trigger tokens and one whose
\* name has none
C6_Witness ==
    /\ Len(reports) > 0
    /\ \E t \in 1..Len(schema.tables) :
          {"JSON_data", "multi_list", "title"}
              \subseteq {schema.tables[t].columns[i].name :
                            i \in 1..Len(schema.tables[t].columns)}
    /\ Len(reports[1].first_normal_form.violations) = 2

\* C7: a 2NF violation is recorded for (table t, column c) exactly when
\* t.primary_keys has more than one member, c's name is not in
\* t.primary_keys, and the first `_`-separated token of c's name is the same
\* token as the first `_`-separated token of t.primary_keys[0]; a table with
\* zero or one primary key contributes none.
C7_SecondNormalFormByFirstToken ==
    \A r \in 1..Len(reports) :
        LET hits == SelectSeq(ColumnRefs(schema),
                        LAMBDA ref :
                            /\ Len(ref.table.primary_keys) > 1
                            /\ ~InList(ref.column.name, ref.table.primary_keys)
                            /\ SplitFirst(ref.column.name, "_")
                                 = SplitFirst(ref.table.primary_keys[1], "_"))
        IN  SeqMap(LAMBDA v : <<v.table, v.column>>,
                   reports[r].second_normal_form.violations)
              = SeqMap(LAMBDA ref : <<ref.table.name, ref.column.name>>, hits)

\* s without its suffix suf, s itself when it does not end with suf
StripSuffix(s, suf) ==
    IF EndsWith(s, suf) THEN SubSeq(s, 1, Len(s) - Len(suf)) ELSE s

\* C8: a 3NF violation with columns [a, b] is recorded, for distinct
\* non-primary-key columns a and b of one table, exactly when a's name with
\* a trailing `_id` stripped (and nothing elsewhere in the name) is a
\* substring of b's name; violations follow table column order and each
\* ordered pair is reported at most once.
C8_ThirdNormalFormBySuffix ==
    \A r \in 1..Len(reports) :
        LET hits == SelectSeq(ColumnPairRefs(schema),
                        LAMBDA ref :
                            /\ ref.a.name # ref.b.name
                            /\ ~ref.a.primary_key
                            /\ ~ref.b.primary_key
                            /\ Contains(ref.b.name,
                                        StripSuffix(ref.a.name, "_id")))
        IN  SeqMap(LAMBDA v : <<v.table, v.columns>>,
                   reports[r].third_normal_form.violations)
              = SeqMap(LAMBDA ref : <<ref.table.name,
                                      <<ref.a.name, ref.b.name>>>>, hits)

\* C9: recommendations holds exactly one advisory string per non-compliant
\* level and none for a compliant one, in the order 1NF, 2NF, 3NF; its length
\* is the number of non-compliant levels.
C9_RecommendationsFollowLevels ==
    \A r \in 1..Len(reports) :
        LET advice == <<"Split non-atomic values into separate columns or tables",
                        "Move partially dependent columns to separate tables",
                        "Remove transitive dependencies by creating lookup tables">>
            failing == SelectSeq(<<1, 2, 3>>,
                           LAMBDA l : ~Levels(reports[r])[l].compliant)
        IN  /\ reports[r].recommendations = SeqMap(LAMBDA l : advice[l], failing)
            /\ Len(reports[r].recommendations)
                 = Cardinality({l \in 1..3 : ~Levels(reports[r])[l].compliant})

\* C9's case: a report whose first and third levels fail and whose second holds
C9_Witness ==
    /\ Len(reports) > 0
    /\ ~reports[1].first_normal_form.compliant
    /\ reports[1].second_normal_form.compliant
    /\ ~reports[1].third_normal_form.compliant
    /\ Len(reports[1].recommendations) = 2

EnumTokens == {"status", "type", "category", "level", "priority"}

\* the names of a table's columns
ColumnNames(table) == {table.columns[i].name : i \in 1..Len(table.columns)}

\* the tables of a schema that have the given name
TablesNamed(sch, name) ==
    {sch.tables[t] : t \in {t \in 1..Len(sch.tables) : sch.tables[t].name = name}}

\* the (table, column, token) triples of a schema where the non-primary-key
\* column's lower-cased name contains the token
TokenMatches(sch) ==
    {m \in {[table |-> ref.table, column |-> ref.column, token |-> tok] :
               ref \in {ColumnRefs(sch)[k] : k \in 1..Len(ColumnRefs(sch))},
               tok \in EnumTokens} :
        /\ ~m.column.primary_key
        /\ Contains(Lower(m.column.name), m.token)}

\* C1: for every table and every non-primary-key column whose name contains
\* one of the tokens (case-insensitive substring), the output's version of the
\* table no longer has that column and has a column <table>_<token>s_id whose
\* foreign_key is <table>_<token>s.id.
C1_MatchedColumnReplacedByForeignKey ==
    \A n \in 1..Len(normalized) :
        \A m \in TokenMatches(original) :
            LET lookup == m.table.name \o "_" \o m.token \o "s"
                out == TablesNamed(normalized[n], m.table.name)
            IN  /\ out # {}
                /\ \A table \in out :
                      /\ m.column.name \notin ColumnNames(table)
                      /\ \E i \in 1..Len(table.columns) :
                            /\ table.columns[i].name = lookup \o "_id"
                            /\ table.columns[i].foreign_key = lookup \o ".id"

\* C2: for each table and each distinct token matched in it, the output has
\* exactly one lookup table named <table>_<token>s, and that table has
\* exactly two columns, id (primary key) and one column named after the
\* token, however many columns of the table matched the token.
C2_OneLookupTableOfTwoColumns ==
    \A n \in 1..Len(normalized) :
        \A m \in TokenMatches(original) :
            LET lookup == m.table.name \o "_" \o m.token \o "s"
                count == Cardinality({t \in 1..Len(normalized[n].tables) :
                                         normalized[n].tables[t].name = lookup})
            IN  /\ count = 1
                /\ \A table \in TablesNamed(normalized[n], lookup) :
                      /\ Len(table.columns) = 2
                      /\ table.columns[1].name = "id"
                      /\ table.columns[1].primary_key
                      /\ table.columns[2].name = m.token
                      /\ table.primary_keys = <<"id">>

\* C3: generate_normalized_schema never mutates its input and returns a
\* distinct schema value: after any calls the caller's schema (name, tables,
\* each table's columns, primary_keys, foreign_keys and description, each
\* column's fields, relationships) has the value the caller built, and no
\* schema returned equals it.
C3_NormalizeLeavesInput ==
    /\ schema = original
    /\ \A n \in 1..Len(normalized) : normalized[n] # schema

\* C3's case: a call that removed a column from the table it built and
\* appended a foreign-key column to it
C3_Witness ==
    /\ Len(normalized) > 0
    /\ \E t \in 1..Len(original.tables) :
          \E table \in TablesNamed(normalized[1], original.tables[t].name) :
              /\ \E name \in ColumnNames(original.tables[t]) :
                    name \notin ColumnNames(table)
              /\ \E name \in ColumnNames(table) :
                    name \notin ColumnNames(original.tables[t])

\* the names of a schema's tables
TableNames(sch) == {sch.tables[t].name : t \in 1..Len(sch.tables)}

\* The relationships an output schema calls for: one per lookup table (a
\* table of the output that is not a table of the input), in the order of
\* the output's tables, from the input table that follows it there.
LookupRelationships(out, inp) ==
    LET RECURSIVE From(_)
        From(t) ==
            IF t > Len(out.tables) THEN <<>>
            ELSE IF out.tables[t].name \in TableNames(inp) THEN From(t + 1)
            ELSE LET next == CHOOSE u \in (t + 1)..Len(out.tables) :
                                 /\ out.tables[u].name \in TableNames(inp)
                                 /\ \A v \in (t + 1)..(u - 1) :
                                       out.tables[v].name \notin TableNames(inp)
                 IN  <<[source_table |-> out.tables[next].name,
                        target_table |-> out.tables[t].name,
                        source_columns |-> <<out.tables[t].name \o "_id">>,
                        target_columns |-> <<"id">>,
                        relationship_type |-> "many-to-one"]>> \o From(t + 1)
    IN  From(1)

\* a relationship's five fields the claims speak of
RelationshipFields(r) ==
    [source_table |-> r.source_table, target_table |-> r.target_table,
     source_columns |-> r.source_columns, target_columns |-> r.target_columns,
     relationship_type |-> r.relationship_type]

\* C18: the schema returned is named <input name>_normalized, and its
\* relationships are the input's relationships in their order followed by
\* exactly one new many-to-one relationship per lookup table created, in
\* creation order: source the original table, target the lookup table,
\* source column <lookup>_id, target column id.
C18_RelationshipsExtended ==
    \A n \in 1..Len(normalized) :
        /\ normalized[n].name = original.name \o "_normalized"
        /\ Len(normalized[n].relationships) >= Len(original.relationships)
        /\ SubSeq(normalized[n].relationships, 1, Len(original.relationships))
             = original.relationships
        /\ SeqMap(RelationshipFields,
                  SubSeq(normalized[n].relationships,
                         Len(original.relationships) + 1,
                         Len(normalized[n].relationships)))
             = LookupRelationships(normalized[n], original)

\* C18's case: a schema with a relationship of its own, normalized into a
\* schema with two lookup tables
C18_Witness ==
    /\ Len(normalized) > 0
    /\ Len(original.relationships) > 0
    /\ Len(LookupRelationships(normalized[1], original)) = 2
    /\ Len(normalized[1].relationships) = Len(original.relationships) + 2

(***************************************************************************)
(* Claims about export_schema_to_sql, checked under SpecExporter.          *)
(***************************************************************************)
\* the CREATE TABLE statement of the named table in a text, up to its
\* closing line; empty when the text has none
CreateTableText(text, name) ==
    LET open == "CREATE TABLE " \o name \o " (\n"
    IN  IF Contains(text, open)
        THEN SplitFirst(AfterFirst(text, open), "\n);\n")
        ELSE ""

\* C10: exporting to sqlite a schema with the table customers(id INTEGER
\* primary key not nullable, email VARCHAR(255) not nullable unique) gives a
\* CREATE TABLE customers statement that contains `id INTEGER NOT NULL`,
\* `email TEXT NOT NULL UNIQUE` and `PRIMARY KEY (id)`.
C10_SqliteRendersVarcharAsText ==
    \A k \in 1..Len(exported) :
        (/\ exported[k].dialect = "sqlite"
         /\ \E table \in TablesNamed(schema, "customers") :
               SeqMap(LAMBDA c : c.name, table.columns) = <<"id", "email">>)
        => LET stmt == CreateTableText(exported[k].text, "customers")
           IN  /\ Contains(exported[k].text, "CREATE TABLE customers (")
               /\ Contains(stmt, "id INTEGER NOT NULL")
               /\ Contains(stmt, "email TEXT NOT NULL UNIQUE")
               /\ Contains(stmt, "PRIMARY KEY (id)")

\* the pieces of s between the occurrences of sep, for a sep that does not
\* overlap itself
Split(s, sep) ==
    LET RECURSIVE Pieces(_, _)
        Pieces(start, hits) ==
            IF hits = {} THEN <<SubSeq(s, start, Len(s))>>
            ELSE LET i == CHOOSE x \in hits : \A y \in hits : x <= y
                 IN  <<SubSeq(s, start, i - 1)>>
                         \o Pieces(i + Len(sep), hits \ {i})
    IN  Pieces(1, {i \in 1..Len(s) : OccursAt(s, sep, i)})

\* the lines between the opening and the closing line of the named table's
\* CREATE TABLE statement in a text, without the commas that end them;
\* none when the text has no such statement
DefinitionLines(text, name) ==
    LET lines == Split(text, "\n")
        opens == {i \in 1..Len(lines) :
                     lines[i] = "CREATE TABLE " \o name \o " ("}
    IN  IF opens = {} THEN <<>>
        ELSE LET first == CHOOSE i \in opens : \A j \in opens : i <= j
                 closes == {i \in (first + 1)..Len(lines) : lines[i] = ");"}
                 last == CHOOSE i \in closes : \A j \in closes : i <= j
             IN  IF closes = {} \/ (last = first + 2 /\ lines[first + 1] = "")
                 THEN <<>>
                 ELSE [i \in 1..(last - first - 1) |->
                          IF i < last - first - 1
                                 /\ EndsWith(lines[first + i], ",")
                          THEN SubSeq(lines[first + i], 1,
                                      Len(lines[first + i]) - 1)
                          ELSE lines[first + i]]

\* the dialects the exporter documents
SupportedDialects == {"mysql", "postgresql", "sqlite"}

\* the spelling of the five logical types in each dialect
Spelling ==
    {<<"mysql", "INTEGER", "INT">>, <<"mysql", "TEXT", "TEXT">>,
     <<"mysql", "REAL", "DECIMAL(10,2)">>, <<"mysql", "BLOB", "BLOB">>,
     <<"mysql", "VARCHAR", "VARCHAR">>,
     <<"postgresql", "INTEGER", "INTEGER">>, <<"postgresql", "TEXT", "TEXT">>,
     <<"postgresql", "REAL", "DECIMAL">>, <<"postgresql", "BLOB", "BYTEA">>,
     <<"postgresql", "VARCHAR", "VARCHAR">>,
     <<"sqlite", "INTEGER", "INTEGER">>, <<"sqlite", "TEXT", "TEXT">>,
     <<"sqlite", "REAL", "REAL">>, <<"sqlite", "BLOB", "BLOB">>,
     <<"sqlite", "VARCHAR", "TEXT">>}

\* the five logical types
LogicalTypes == {"INTEGER", "TEXT", "REAL", "BLOB", "VARCHAR"}

\* how a data_type is to be rendered in a dialect: its spelling when it is
\* one of the five logical types, itself otherwise
Rendered(dialect, data_type) ==
    IF data_type \in LogicalTypes
    THEN (CHOOSE sp \in Spelling : sp[1] = dialect /\ sp[2] = data_type)[3]
    ELSE data_type

\* C11: in a text exported for one of the three dialects, the line of every
\* column reads `<name> <type>` where <type> is the dialect's spelling of
\* the column's data_type when that is one of INTEGER, TEXT, REAL, BLOB,
\* VARCHAR, and the data_type itself, unchanged, otherwise.
C11_TypesMappedOrVerbatim ==
    \A k \in 1..Len(exported) :
        exported[k].dialect \in SupportedDialects =>
            \A t \in 1..Len(schema.tables) :
                LET table == schema.tables[t]
                    lines == DefinitionLines(exported[k].text, table.name)
                IN  /\ Len(lines) >= Len(table.columns)
                    /\ \A i \in 1..Len(table.columns) :
                          LET want == "    " \o table.columns[i].name \o " "
                                          \o Rendered(exported[k].dialect,
                                                      table.columns[i].data_type)
                          IN  lines[i] = want \/ StartsWith(lines[i], want \o " ")

\* C11's case: a sqlite text for a table with a VARCHAR column, rendered
\* TEXT, and a VARCHAR(255) column, rendered as it is
C11_Witness ==
    \E k \in 1..Len(exported) :
        /\ exported[k].dialect = "sqlite"
        /\ Contains(exported[k].text, "    segment TEXT DEFAULT 'new'")
        /\ Contains(exported[k].text, "    email VARCHAR(255) NOT NULL UNIQUE")

\* C12: a call with a dialect outside mysql, postgresql, sqlite fails with
\* an ExportError and returns no text: every text the caller ever got back
\* was asked for in one of the three dialects.
C12_UnsupportedDialectRejected ==
    \A k \in 1..Len(exported) : exported[k].dialect \in SupportedDialects

\* the ALTER TABLE statement a foreign_keys entry of a table calls for
ForeignKeyStatement(table, fk) ==
    "ALTER TABLE " \o table.name \o " ADD FOREIGN KEY (" \o fk.source_column
        \o ") REFERENCES " \o fk.target_table \o "(" \o fk.target_column
        \o ");"

\* the foreign_keys entries of a schema, each with its table, tables in order
ForeignKeyRefs(sch) ==
    LET RECURSIVE From(_, _)
        From(t, i) ==
            IF t > Len(sch.tables) THEN <<>>
            ELSE IF i > Len(sch.tables[t].foreign_keys) THEN From(t + 1, 1)
            ELSE <<[table |-> sch.tables[t],
                    fk |-> sch.tables[t].foreign_keys[i]]>> \o From(t, i + 1)
    IN  From(1, 1)

\* C14: the lines of an exported text that open with ALTER TABLE are exactly
\* one `ALTER TABLE <table> ADD FOREIGN KEY (<column>) REFERENCES
\* <target>(<column>);` per entry of every table's foreign_keys, and each of
\* them comes after every line that opens a CREATE TABLE statement.
C14_AlterAfterEveryCreate ==
    \A k \in 1..Len(exported) :
        LET lines == Split(exported[k].text, "\n")
            alters == SelectSeq(lines, LAMBDA l : StartsWith(l, "ALTER TABLE "))
        IN  /\ alters = SeqMap(LAMBDA ref : ForeignKeyStatement(ref.table, ref.fk),
                               ForeignKeyRefs(schema))
            /\ \A i, j \in 1..Len(lines) :
                  (/\ StartsWith(lines[i], "CREATE TABLE ")
                   /\ StartsWith(lines[j], "ALTER TABLE ")) => i < j

\* C14's case: a text for two tables with a foreign key each, the first
\* table referring to the second, which is created after it
C14_Witness ==
    /\ Len(schema.tables) = 2
    /\ Len(ForeignKeyRefs(schema)) = 2
    /\ schema.tables[1].foreign_keys[1].target_table = schema.tables[2].name
    /\ Len(exported) > 0

\* the flags a column's line is to end with
ColumnFlags(column) ==
    (IF ~column.nullable THEN " NOT NULL" ELSE "")
        \o (IF column.default_value.kind = "str"
            THEN " DEFAULT '" \o column.default_value.text \o "'"
            ELSE IF column.default_value.kind = "int"
                 THEN " DEFAULT " \o ToString(column.default_value.number)
                 ELSE "")
        \o (IF column.unique THEN " UNIQUE" ELSE "")

\* a line is the column's: its name, a type, then exactly the column's flags
IsColumnLine(line, column) ==
    /\ EndsWith(line, ColumnFlags(column))
    /\ LET head == SubSeq(line, 1, Len(line) - Len(ColumnFlags(column)))
       IN  /\ StartsWith(head, "    " \o column.name \o " ")
           /\ Len(head) > Len(column.name) + 5
           /\ ~Contains(head, " NOT NULL")
           /\ ~Contains(head, " DEFAULT ")
           /\ ~Contains(head, " UNIQUE")

\* C15: an exported text has exactly one CREATE TABLE statement per table,
\* in table order; its lines are one per column in column order, each with
\* NOT NULL iff the column is not nullable, then DEFAULT <value> iff
\* default_value is set (quoted iff it is textual), then UNIQUE iff the
\* column is unique; and a last line PRIMARY KEY (...) listing primary_keys
\* in order iff primary_keys is not empty.
C15_CreateTablePerTable ==
    \A k \in 1..Len(exported) :
        /\ SelectSeq(Split(exported[k].text, "\n"),
                     LAMBDA l : StartsWith(l, "CREATE TABLE "))
             = SeqMap(LAMBDA table : "CREATE TABLE " \o table.name \o " (",
                      schema.tables)
        /\ \A t \in 1..Len(schema.tables) :
              LET table == schema.tables[t]
                  lines == DefinitionLines(exported[k].text, table.name)
                  n == Len(table.columns)
              IN  /\ Len(lines) = n + (IF table.primary_keys = <<>> THEN 0 ELSE 1)
                  /\ \A i \in 1..n : IsColumnLine(lines[i], table.columns[i])
                  /\ table.primary_keys # <<>> =>
                        lines[n + 1] = "    PRIMARY KEY ("
                                           \o Join(table.primary_keys, ", ")
                                           \o ")"

\* C15's case: a text for a table with a column that is not nullable and
\* has a numeric default, and a table with a two-column primary key
C15_Witness ==
    \E k \in 1..Len(exported) :
        /\ Contains(exported[k].text, " NOT NULL DEFAULT 0")
        /\ Contains(exported[k].text, "    PRIMARY KEY (id, code)")

HasDanglingForeignKey(sch) ==
    \E t \in 1..Len(sch.tables) :
        \E i \in 1..Len(sch.tables[t].columns) :
            LET column == sch.tables[t].columns[i]
            IN  /\ column.foreign_key # None
                /\ TablesNamed(sch, SplitFirst(column.foreign_key, ".")) = {}

\* C13: a schema with a foreign_key whose target table is absent is rejected
\* with a ValidationError: no report, no normalized schema and no SQL text
\* is ever returned for it.
C13_DanglingForeignKeyRejected ==
    HasDanglingForeignKey(schema) =>
        /\ reports = <<>>
        /\ normalized = <<>>
        /\ exported = <<>>

(***************************************************************************)
(* Claims about analyze_existing_database, checked under SpecInspector.    *)
(***************************************************************************)
\* the foreign-key declarations of a file, each with its table
Declarations(db) ==
    UNION {{[source_table |-> db.tables[t].name,
             target_table |-> db.tables[t].foreign_keys[k].table,
             source_columns |-> db.tables[t].foreign_keys[k].from,
             number |-> k] :
               k \in 1..Len(db.tables[t].foreign_keys)} :
           t \in 1..Len(db.tables)}

\* C19: analyze_existing_database builds exactly one Relationship per
\* foreign-key declaration of the file, a declaration over several columns
\* being one declaration whose columns are paired in source_columns and
\* target_columns, and every Relationship it builds is many-to-one.
C19_OneRelationshipPerDeclaration ==
    \A n \in 1..Len(analyzed) :
        LET relationships == analyzed[n].relationships
        IN  /\ Len(relationships) = Cardinality(Declarations(database))
            /\ \A d \in Declarations(database) :
                  \E k \in 1..Len(relationships) :
                      /\ relationships[k].source_table = d.source_table
                      /\ relationships[k].target_table = d.target_table
                      /\ relationships[k].source_columns = d.source_columns
                      /\ Len(relationships[k].target_columns)
                           = Len(d.source_columns)
            /\ \A k \in 1..Len(relationships) :
                  relationships[k].relationship_type = "many-to-one"

\* C20: the schema analyze_existing_database returns has a Table for every
\* user table of the file and for no internal table of SQLite, such as
\* sqlite_sequence.
C20_OnlyUserTables ==
    \A n \in 1..Len(analyzed) :
        /\ SeqMap(LAMBDA table : table.name, analyzed[n].tables)
             = SeqMap(LAMBDA table : table.name, database.tables)
        /\ \A t \in 1..Len(analyzed[n].tables) :
              ~StartsWith(analyzed[n].tables[t].name, "sqlite_")

\* C21: whenever a catalog read of analyze_existing_database fails (the
\* connect, the listing of tables, or a PRAGMA of any table, also after
\* some tables were processed), the call ends by raising and the caller
\* receives no DatabaseSchema: the schemas the caller holds are exactly the
\* results of the calls in which no read failed.
C21_FailedReadRaises ==
    /\ \A i \in 1..Len(inspections) :
           inspections[i].failed =>
               /\ inspections[i].outcome = "raised"
               /\ inspections[i].result = None
    /\ analyzed = SeqMap(LAMBDA call : call.result,
                         SelectSeq(inspections, LAMBDA call : ~call.failed))

\* a call failed after the connection was opened, and a later call of the
\* same caller succeeded
C21_Witness ==
    /\ Len(inspections) = 2
    /\ inspections[1].failed
    /\ inspections[1].connection = "open"
    /\ ~inspections[2].failed
    /\ Len(analyzed) = 1
    /\ Len(analyzed[1].tables) >= 2

\* C29: whenever a call of analyze_existing_database has ended, by
\* returning or by raising, the connection it opened is closed.
C29_ConnectionClosed ==
    \A i \in 1..Len(inspections) : inspections[i].connection # "open"

(***************************************************************************)
(* Claims about save_schema_documentation, checked under SpecDocumenter.   *)
(***************************************************************************)
\* the six artifact files of a schema name: suffix and what a run writes
Artifacts(sch) ==
    {<<"_schema.json",
       [format |-> "json", indent |-> 2,
        value |-> [name |-> sch.name, tables |-> sch.tables,
                   relationships |-> sch.relationships,
                   views |-> sch.views, indexes |-> sch.indexes]]>>,
     <<"_er_diagram.dot", generate_er_diagram_dot(sch)>>,
     <<"_mysql.sql", export_schema_to_sql(sch, "mysql")>>,
     <<"_postgresql.sql", export_schema_to_sql(sch, "postgresql")>>,
     <<"_sqlite.sql", export_schema_to_sql(sch, "sqlite")>>,
     <<"_normalization_analysis.json",
       [format |-> "json", indent |-> 2,
        value |-> check_normalization_level(sch, <<>>).analysis]>>}

\* C22: once save_schema_documentation(schema, dir) has completed, dir
\* holds the six files <name>_schema.json, <name>_er_diagram.dot,
\* <name>_mysql.sql, <name>_postgresql.sql, <name>_sqlite.sql and
\* <name>_normalization_analysis.json; after further completed runs for a
\* schema of the same name it holds exactly these six, one per artifact
\* type, each with the content of the latest run.
C22_OneFilePerArtifact ==
    documented.runs > 0 =>
        \A output_dir \in OutputDirs :
            /\ output_dir \in filesystem.directories
            /\ DOMAIN filesystem.files =
                   {output_dir \o "/" \o documented.latest.name \o a[1] :
                       a \in Artifacts(documented.latest)}
            /\ Cardinality(DOMAIN filesystem.files) = 6
            /\ \A a \in Artifacts(documented.latest) :
                   filesystem.files[output_dir \o "/"
                                    \o documented.latest.name \o a[1]] = a[2]

\* a second run has completed for a schema that differs from the one of
\* the run before, in tables and in the analysis
C22_Witness ==
    /\ documented.runs = 2
    /\ documented.overwrote
    /\ filesystem.files["docs/shop_normalization_analysis.json"].value
           .third_normal_form.compliant = FALSE
    /\ Len(documented.latest.tables) = 2

(***************************************************************************)
(* Claims about concurrent calls, checked under SpecThreads.               *)
(***************************************************************************)
\* what the call of a frame returns when it runs alone
Alone(frame) ==
    IF frame.operation = "check_normalization_level"
    THEN check_normalization_level(frame.schema, <<>>).analysis
    ELSE IF frame.operation = "generate_normalized_schema"
    THEN generate_normalized_schema(frame.schema).result
    ELSE export_schema_to_sql(frame.schema, frame.dialect)

\* C23: the calls share no mutable state: in every interleaving of
\* concurrent check_normalization_level, generate_normalized_schema and
\* export_schema_to_sql calls through one DatabaseDesignAnalyzer object,
\* each on a schema instance of its own, every call that has returned
\* returned what it returns when run alone, and the shared object is as
\* __init__ left it.
C23_ConcurrentCallsIndependent ==
    /\ analyzer = NewAnalyzer
    /\ \A self \in DOMAIN threads :
           threads[self].pc = "returned" =>
               threads[self].result = Alone(threads[self])

\* two calls are in progress at once, both inside their loop over the
\* tables after an iteration, one a check that has recorded a violation
C23_Witness ==
    \E self, other \in DOMAIN threads :
        /\ self # other
        /\ threads[self].pc = "tables"
        /\ threads[other].pc = "tables"
        /\ threads[self].t = 2
        /\ threads[other].t = 2
        /\ threads[self].operation = "check_normalization_level"
        /\ ~threads[self].locals.analysis.first_normal_form.compliant
        /\ threads[other].operation # "export_schema_to_sql"

(***************************************************************************)
(* Further claims about generate_normalized_schema.                        *)
(***************************************************************************)
\* the table names of a schema are pairwise distinct
NamesDistinct(sch) == Cardinality(TableNames(sch)) = Len(sch.tables)

\* C24: generate_normalized_schema preserves table-name uniqueness: when the
\* table names of the schema passed are pairwise distinct, so are the table
\* names of the schema returned (the passed tables plus the lookup tables
\* <table>_<token>s).  Checked under SpecRenormalizer, for the calls on the
\* caller's schema and for the calls on a returned schema.
C24_TableNamesUnique ==
    /\ \A k \in 1..Len(normalized) :
           NamesDistinct(original) => NamesDistinct(normalized[k])
    /\ \A k \in 1..Len(renormalized) :
           NamesDistinct(normalized[k]) => NamesDistinct(renormalized[k])

\* every table's primary_keys names only columns of the table
KeysPresent(sch) ==
    \A t \in 1..Len(sch.tables) :
        \A k \in 1..Len(sch.tables[t].primary_keys) :
            sch.tables[t].primary_keys[k] \in ColumnNames(sch.tables[t])

\* C25: generate_normalized_schema preserves the Table invariant: when every
\* table of the schema passed lists in primary_keys only columns it has,
\* every table of the schema returned does too (also a table with a
\* primary-key column named like a token, such as status, next to another
\* column matching the token).  Checked under SpecNormalizer.
C25_PrimaryKeysPresent ==
    \A k \in 1..Len(normalized) :
        KeysPresent(original) => KeysPresent(normalized[k])

\* the (table, column) pairs of an output schema where the column is a
\* synthesized reference <lookup>_id to a lookup table of the output (a
\* table that the input does not have)
SynthesizedReferences(out, inp) ==
    {ref \in {ColumnRefs(out)[k] : k \in 1..Len(ColumnRefs(out))} :
        \E lookup \in TableNames(out) \ TableNames(inp) :
            /\ ref.column.name = lookup \o "_id"
            /\ ref.column.foreign_key = lookup \o ".id"}

\* C27: in the schema generate_normalized_schema returns, every synthesized
\* foreign-key column <lookup>_id has a matching {source_column,
\* target_table, target_column} entry in its table's foreign_keys (the
\* entries export_schema_to_sql turns into ALTER TABLE ... ADD FOREIGN KEY).
\* Checked under SpecNormalizer.
C27_SynthesizedForeignKeysListed ==
    \A k \in 1..Len(normalized) :
        \A ref \in SynthesizedReferences(normalized[k], original) :
            \E f \in 1..Len(ref.table.foreign_keys) :
                LET fk == ref.table.foreign_keys[f]
                IN  /\ fk.source_column = ref.column.name
                    /\ fk.target_table \o "_id" = ref.column.name
                    /\ fk.target_column = "id"

\* the table names of a schema with each table's column names, in order
Shape(sch) ==
    SeqMap(LAMBDA table : <<table.name,
                            SeqMap(LAMBDA col : col.name, table.columns)>>,
           sch.tables)

\* C28: normalization reaches a fixed point after one application:
\* generate_normalized_schema applied to a schema it returned creates no
\* further lookup table and no further foreign-key column, that is the
\* second output has the tables and columns of the first (the schema name
\* and the descriptions aside).  Checked under SpecRenormalizer.
C28_FixedPointAfterOne ==
    \A k \in 1..Len(renormalized) :
        Shape(renormalized[k]) = Shape(normalized[k])

(***************************************************************************)
(* A further claim about check_normalization_level.                        *)
(***************************************************************************)
\* the names listed in primary_keys by the tables of that name
ListedKeys(sch, name) ==
    UNION {{table.primary_keys[k] : k \in 1..Len(table.primary_keys)} :
              table \in TablesNamed(sch, name)}

\* C26: no 3NF violation record of check_normalization_level names a column
\* that its table lists in primary_keys: the 3NF check and the 2NF check
\* agree on the key columns, also when the Column primary_key flags and
\* the Table primary_keys list are set independently.  Checked under
\* SpecListedKeys.
C26_ThirdNormalFormSkipsListedKeys ==
    \A n \in 1..Len(returned) :
        \A v \in 1..Len(returned[n].third_normal_form.violations) :
            LET violation == returned[n].third_normal_form.violations[v]
            IN  \A c \in 1..Len(violation.columns) :
                    violation.columns[c]
                        \notin ListedKeys(original, violation.table)

(***************************************************************************)
(* Claims about /api/analyze-schema, checked under SpecUploads.            *)
(***************************************************************************)
\* every request whose analysis has read a file read the file the request
\* uploaded
C30_AnalyzesOwnUpload ==
    \A self \in DOMAIN requests :
        (requests[self].pc # "idle" /\ requests[self].read # NotRead)
            => requests[self].read = self

\* no file of the folder was uploaded by a request that has ended
C30_UploadRemovedAtEnd ==
    \A self \in DOMAIN requests :
        requests[self].pc = "ended"
            => \A path \in DOMAIN uploads : uploads[path].by # self

\* C30: concurrent /api/analyze-schema requests do not interfere through
\* the upload store: in every interleaving of the requests, also of two
\* that upload files with the same sanitized filename, each request
\* analyzes the file it uploaded itself, and once a request has ended, with
\* a result or with an error, the file it uploaded is no longer in the
\* upload folder.
C30_UploadsDoNotInterfere == C30_AnalyzesOwnUpload /\ C30_UploadRemovedAtEnd

====
